---------------------------- MODULE Spec2Model ----------------------------
(***************************************************************************)
(* A model of the price-comparison core of the repository:                 *)
(*   app/services/differential_pricing.py  DifferentialPricingService      *)
(*   app/services/product_matcher.py       ProductMatcherService           *)
(*   app/services/relevance_ranker.py      RelevanceRanker                 *)
(*   app/adapters/llm_client.py            LLMClient (the two operations   *)
(*                                         the services consume)           *)
(*   app/services/query_discovery.py       QueryDiscoveryService           *)
(*   app/services/product_extractor.py     ProductExtractorService         *)
(*   app/main.py                           compare                         *)
(*   app/policy.py                         StrategyPolicy                  *)
(*   app/orchestrator.py                   StrategyOrchestrator.run_once   *)
(*   app/adapters/neo4j_store.py           Neo4jStore without a driver     *)
(*   app/adapters/scraper.py               WebScraper (what run_once reads *)
(*                                         of a snapshot)                  *)
(*                                                                         *)
(* Representation.                                                         *)
(*  - A Python str that the code inspects is a sequence of one-character   *)
(*    strings, so that lower(), split(), the regular expressions and       *)
(*    substring tests are computed and not assumed.  The alphabet is the   *)
(*    ASCII subset listed in AsciiOrder.                                   *)
(*  - Money is an integer number of cents.                                 *)
(*  - Percentages (spread, promo) are integers in hundredths of a percent, *)
(*    the resolution round(x, 2) leaves.                                   *)
(*  - Confidences are integers in thousandths; relevance scores are        *)
(*    integers in ten-thousandths, the resolution round(x, 4) leaves.      *)
(*  - round(x, n) is computed on the exact quotient, ties to even.  The    *)
(*    double nearest to a decimal tie lies on one side of it, so on an     *)
(*    exact tie CPython may round to either neighbour.                     *)
(***************************************************************************)
EXTENDS Integers, Sequences, FiniteSets, TLC

VARIABLES
    op,           \* which service the instance exercises: "analyze", "match", "rank", ...
    a_cluster,    \* analyze: the ComparisonCluster argument
    a_llm,        \* analyze: the llm of the service instance that made the latest call
    a_finding,    \* analyze: <<the PricingFinding returned last>>, <<>> before it
    a_error,      \* analyze: the exception the latest call raised, "" if it returned
    m_query,      \* match: the query argument
    m_offers,     \* match: the offers argument
    m_llm,        \* match: the llm of the service instance that made the latest call
    m_result,     \* match: <<what the latest call returned>>, <<>> before it or if it raised
    m_llm_calls,  \* match: the calls of llm.match_same_product the latest call made
    m_raw,        \* match: <<what the LLM transport answered in the latest call>>, <<>> if it was not asked
    m_error,      \* match: the exception the latest call raised, "" if it returned
    r_query,      \* rank: the query argument
    r_offers,     \* rank: the offers argument
    r_result,     \* rank: <<the method called and what it returned>>, <<>> before the call
    p_policy,     \* detect: the StrategyPolicy instance
    p_snapshot,   \* detect: the snapshot argument
    p_history,    \* detect: the history argument, most recent entry first
    p_result,     \* detect: <<what the call returned>>, <<>> before the call
    h_store,      \* history: the Neo4jStore behind the HistoryService
    h_result,     \* history: <<the latest call and what it returned>>, <<>> before any
    h_calls,      \* history: the calls made so far
    d_service,    \* discover: the QueryDiscoveryService instance
    d_query,      \* discover: the query argument
    d_pages,      \* discover: what fetching each retailer's site search gives
    d_result,     \* discover: <<the DiscoveryResult returned>>, <<>> before the call or if it raised
    d_error,      \* discover: the exception the call raised, "" if it returned
    e_service,    \* extract: the ProductExtractorService
    e_candidates, \* extract: the candidates argument of extract_many
    e_fetches,    \* extract: what fetching the url of each candidate does
    e_order,      \* extract: the order in which the futures completed
    e_result,     \* extract: <<the offers and warnings returned>>, <<>> before the call
    c_request,    \* compare: the CompareRequest
    c_discovery,  \* compare: the module's query_discovery instance
    c_pages,      \* compare: what fetching each retailer's site search gives
    c_response,   \* compare: <<the CompareResponse returned>>, <<>> before the call or if it raised
    c_error,      \* compare: the exception the handler raised, "" if it returned
    o_settings,   \* run_once: <<the Settings of the orchestrator>>
    o_snapshots,  \* run_once: the store's _memory_snapshots
    o_signals,    \* run_once: the store's _memory_signals
    o_actions,    \* run_once: the store's _memory_actions
    o_confidence, \* run_once: the store's _memory_confidence, a function of the keys stored
    o_clock,      \* run_once: the instant the clock was last read at, 0 before any reading
    o_calls       \* run_once: the calls made so far, with what they were given and returned

(***************************************************************************)
(* Characters and Python's str primitives.                                 *)
(***************************************************************************)
LowerAlpha == <<"a","b","c","d","e","f","g","h","i","j","k","l","m",
                "n","o","p","q","r","s","t","u","v","w","x","y","z">>
UpperAlpha == <<"A","B","C","D","E","F","G","H","I","J","K","L","M",
                "N","O","P","Q","R","S","T","U","V","W","X","Y","Z">>
DigitChars == <<"0","1","2","3","4","5","6","7","8","9">>

\* The characters of the model in code-point order (str comparison).
AsciiOrder == <<" ", "$", "%", "-", ".", "/">> \o DigitChars \o <<":", "=", "?">>
              \o UpperAlpha \o LowerAlpha

Range(s) == {s[i] : i \in 1..Len(s)}
LowerSet == Range(LowerAlpha)
UpperSet == Range(UpperAlpha)
DigitSet == Range(DigitChars)

IsDigit(c) == c \in DigitSet
IsLetter(c) == c \in LowerSet \/ c \in UpperSet
IsAlnum(c) == IsLetter(c) \/ IsDigit(c)
IsSpace(c) == c = " "
\* \w of the re module, on this alphabet (it has no underscore)
IsWordChar(c) == IsAlnum(c)

LowerOf == [c \in UpperSet |-> LowerAlpha[CHOOSE i \in 1..26 : UpperAlpha[i] = c]]
UpperOf == [c \in LowerSet |-> UpperAlpha[CHOOSE i \in 1..26 : LowerAlpha[i] = c]]
ValueOf == [c \in DigitSet |-> (CHOOSE i \in 1..10 : DigitChars[i] = c) - 1]
OrdOf == [c \in Range(AsciiOrder) |-> CHOOSE i \in 1..Len(AsciiOrder) : AsciiOrder[i] = c]

LowerChar(c) == IF c \in UpperSet THEN LowerOf[c] ELSE c
UpperChar(c) == IF c \in LowerSet THEN UpperOf[c] ELSE c
DigitValue(c) == ValueOf[c]
Ord(c) == OrdOf[c]

\* str.lower(), str.upper()
Lower(s) == SubSeq([i \in 1..Len(s) |-> LowerChar(s[i])], 1, Len(s))
Upper(s) == [i \in 1..Len(s) |-> UpperChar(s[i])]

\* s[i..j] as a slice that is empty when j < i
Slice(s, i, j) == IF j < i THEN <<>> ELSE SubSeq(s, i, j)

\* needle in haystack (substring test)
StartsAt(s, i, t) == i + Len(t) - 1 <= Len(s) /\ \A k \in 1..Len(t) : s[i + k - 1] = t[k]
\* the same under re.IGNORECASE, t in lower case
StartsAtIgnoreCase(s, i, t) ==
    i + Len(t) - 1 <= Len(s) /\ \A k \in 1..Len(t) : LowerChar(s[i + k - 1]) = t[k]
Contains(s, t) ==
    t = <<>> \/ \E i \in 1..(Len(s) - Len(t) + 1) : s[i] = t[1] /\ StartsAt(s, i, t)

\* a < b for str
StrLess(a, b) ==
    \/ \E i \in 1..Len(a) :
         /\ i <= Len(b)
         /\ \A k \in 1..(i - 1) : a[k] = b[k]
         /\ Ord(a[i]) < Ord(b[i])
    \/ Len(a) < Len(b) /\ \A k \in 1..Len(a) : a[k] = b[k]

\* str.strip() for the blank
RECURSIVE LStrip(_)
LStrip(s) == IF s # <<>> /\ IsSpace(Head(s)) THEN LStrip(Tail(s)) ELSE s
RECURSIVE RStrip(_)
RStrip(s) == IF s # <<>> /\ IsSpace(s[Len(s)]) THEN RStrip(SubSeq(s, 1, Len(s) - 1)) ELSE s
Strip(s) == RStrip(LStrip(s))

\* str.split(): the maximal runs of non-blank characters
RECURSIVE SplitFrom(_, _, _)
SplitFrom(s, i, cur) ==
    IF i > Len(s) THEN (IF cur = <<>> THEN <<>> ELSE <<cur>>)
    ELSE IF IsSpace(s[i])
         THEN (IF cur = <<>> THEN <<>> ELSE <<cur>>) \o SplitFrom(s, i + 1, <<>>)
         ELSE SplitFrom(s, i + 1, Append(cur, s[i]))
Split(s) == SplitFrom(s, 1, <<>>)

\* str.title(): a letter is upper-cased after a non-letter, lower-cased after a letter
Title(s) == [i \in 1..Len(s) |->
               IF IsLetter(s[i])
               THEN (IF i > 1 /\ IsLetter(s[i - 1]) THEN LowerChar(s[i]) ELSE UpperChar(s[i]))
               ELSE s[i]]

\* \b of the re module at the gap before position p (1 <= p <= Len(s) + 1)
Boundary(s, p) ==
    LET before == p > 1 /\ IsWordChar(s[p - 1])
        after  == p <= Len(s) /\ IsWordChar(s[p])
    IN  before # after

\* the length of the maximal run of characters in class C starting at position i
RECURSIVE RunLen(_, _, _)
RunLen(s, i, C) == IF i <= Len(s) /\ s[i] \in C THEN 1 + RunLen(s, i + 1, C) ELSE 0

\* int() of a string of digits
RECURSIVE DigitsToNat(_)
DigitsToNat(s) == IF s = <<>> THEN 0
                  ELSE 10 * DigitsToNat(SubSeq(s, 1, Len(s) - 1)) + DigitValue(s[Len(s)])

Max2(a, b) == IF a >= b THEN a ELSE b
Min2(a, b) == IF a <= b THEN a ELSE b
SetMax(S) == CHOOSE x \in S : \A y \in S : y <= x
SetMin(S) == CHOOSE x \in S : \A y \in S : x <= y

\* round(num / den) to the nearest integer, ties to even, for num >= 0 and den > 0
RoundDiv(num, den) ==
    LET q == num \div den
        r == num % den
    IN  IF 2 * r < den THEN q
        ELSE IF 2 * r > den THEN q + 1
        ELSE IF q % 2 = 0 THEN q ELSE q + 1

(***************************************************************************)
(* app/models.py                                                           *)
(***************************************************************************)
\* PurchaseOption: the fields the services read or write.
PurchaseOption(id, seller, domain, title, brand, model, variant, price, condition, promo, url, relevance, notes) ==
    [offer_id |-> id, seller_name |-> seller, source_domain |-> domain,
     title |-> title, brand |-> brand, model |-> model, variant |-> variant,
     price |-> price, condition |-> condition, promo_text |-> promo, url |-> url,
     relevance_score |-> relevance, match_confidence |-> 0, parse_notes |-> notes]


(***************************************************************************)
(* app/adapters/llm_client.py                                              *)
(***************************************************************************)
\* LLMClient as the services see it: api_key set or not, and the provider.
\* self.model is never empty (line 45 substitutes a default).  present is
\* FALSE for a service constructed with llm=None.
LLMClient(api_key, provider) == [present |-> TRUE, api_key |-> api_key, provider |-> provider]
NoLLM == [present |-> FALSE, api_key |-> FALSE, provider |-> ""]

\* What LLMClient._call_json returns: None (transport error, HTTP error,
\* unparsable body: ok = FALSE) or json.loads of the body, which is a JSON
\* object (object = TRUE, with its fields) or another JSON value (a list, a
\* string, a number).
NoJson == [ok |-> FALSE, object |-> FALSE]
NonObjectJson == [ok |-> TRUE, object |-> FALSE]

\* raw.get(...) of lines 96, 138 and 180 raises AttributeError on a JSON value
\* that is not an object; nothing between there and the caller of the
\* service catches it.
RawGetRaises(raw) == raw.ok /\ ~raw.object

\* LLMClient.enabled
enabled(llm) == llm.api_key

\* LLMClient._clamp_float: value is a number (numeric, in thousandths) or
\* something float() refuses.
_clamp_float(value, minimum, maximum) ==
    LET numeric == IF value.numeric THEN value.number ELSE 0
    IN  Max2(minimum, Min2(maximum, numeric))

NarrativeClampLow == -100
NarrativeClampHigh == 100

NoNarrative == [ok |-> FALSE, reasoning |-> <<>>, claim_style_text |-> <<>>,
                confidence_adjustment |-> 0]

\* explain_pricing_comparison without the clamp of line 187
explain_pricing_comparison_unclamped(llm, offers, raw) ==
    IF ~enabled(llm) \/ llm.provider # "gemini" \/ Len(offers) < 2 THEN NoNarrative
    ELSE IF ~raw.ok THEN NoNarrative
    ELSE LET reasoning == Strip(raw.reasoning)
             claim_style_text == Strip(raw.claim_style_text)
         IN  IF reasoning = <<>> \/ claim_style_text = <<>> THEN NoNarrative
             ELSE [ok |-> TRUE,
                   reasoning |-> reasoning,
                   claim_style_text |-> claim_style_text,
                   confidence_adjustment |->
                       IF raw.confidence_adjustment.numeric
                       THEN raw.confidence_adjustment.number ELSE 0]

\* LLMClient.explain_pricing_comparison. raw is what _call_json returns.
explain_pricing_comparison(llm, offers, raw) ==
    IF ~enabled(llm) \/ llm.provider # "gemini" \/ Len(offers) < 2 THEN NoNarrative
    ELSE IF ~raw.ok THEN NoNarrative
    ELSE LET reasoning == Strip(raw.reasoning)
             claim_style_text == Strip(raw.claim_style_text)
         IN  IF reasoning = <<>> \/ claim_style_text = <<>> THEN NoNarrative
             ELSE [ok |-> TRUE,
                   reasoning |-> reasoning,
                   claim_style_text |-> claim_style_text,
                   confidence_adjustment |->
                       _clamp_float(raw.confidence_adjustment,
                                    NarrativeClampLow, NarrativeClampHigh)]

(***************************************************************************)
(* app/services/differential_pricing.py                                    *)
(***************************************************************************)
\* PROMO_PERCENT_PATTERN = (\d{1,2})\s*%\s*off, IGNORECASE: a match that
\* starts at i with k digits.
PromoPercentMatchAt(s, i, k) ==
    /\ i + k - 1 <= Len(s)
    /\ \A d \in 0..(k - 1) : IsDigit(s[i + d])
    /\ LET p == i + k + RunLen(s, i + k, {" "})
       IN  /\ p <= Len(s)
           /\ s[p] = "%"
           /\ StartsAtIgnoreCase(s, p + 1 + RunLen(s, p + 1, {" "}), <<"o", "f", "f">>)

\* PROMO_PERCENT_PATTERN.search(text): the group of the leftmost match
\* (\d{1,2} takes two digits before it tries one), empty without a match.
PromoPercentSearch(s) ==
    LET starts == {i \in 1..Len(s) :
                      IsDigit(s[i]) /\ \E k \in {1, 2} : PromoPercentMatchAt(s, i, k)}
    IN  IF starts = {} THEN <<>>
        ELSE LET i == SetMin(starts)
                 k == SetMax({k \in {1, 2} : PromoPercentMatchAt(s, i, k)})
             IN  SubSeq(s, i, i + k - 1)

\* PROMO_DOLLAR_PATTERN = save\s*\$\s*([0-9]+(?:\.[0-9]{1,2})?), IGNORECASE:
\* where the amount starts for a match that starts at i, 0 without one.
PromoDollarAmountStart(s, i) ==
    IF ~StartsAtIgnoreCase(s, i, <<"s", "a", "v", "e">>) THEN 0
    ELSE LET p == i + 4 + RunLen(s, i + 4, {" "})
         IN  IF p > Len(s) \/ s[p] # "$" THEN 0
             ELSE LET q == p + 1 + RunLen(s, p + 1, {" "})
                  IN  IF RunLen(s, q, DigitSet) >= 1 THEN q ELSE 0

\* PROMO_DOLLAR_PATTERN.search(text): the amount of the leftmost match in
\* cents (float(group(1)) * 100), -1 without a match.
PromoDollarSearch(s) ==
    LET starts == {i \in 1..Len(s) :
                      LowerChar(s[i]) = "s" /\ PromoDollarAmountStart(s, i) > 0}
    IN  IF starts = {} THEN -1
        ELSE LET q == PromoDollarAmountStart(s, SetMin(starts))
                 n == RunLen(s, q, DigitSet)
                 whole == DigitsToNat(SubSeq(s, q, q + n - 1))
                 f == IF q + n <= Len(s) /\ s[q + n] = "."
                      THEN Min2(2, RunLen(s, q + n + 1, DigitSet)) ELSE 0
                 frac == IF f = 0 THEN 0
                         ELSE IF f = 1 THEN 10 * DigitValue(s[q + n + 1])
                         ELSE DigitsToNat(SubSeq(s, q + n + 1, q + n + 2))
             IN  100 * whole + frac

FlatPromoPercent == 1000

\* DifferentialPricingService._promo_percent, in hundredths of a percent
_promo_percent(promo_text, price) ==
    LET pct == PromoPercentSearch(promo_text)
        usd == PromoDollarSearch(promo_text)
    IN  IF pct # <<>> THEN 100 * DigitsToNat(pct)
        ELSE IF usd >= 0 /\ price > 0 THEN RoundDiv(usd * 10000, price)
        ELSE IF promo_text # <<>> THEN FlatPromoPercent
        ELSE 0

\* DifferentialPricingService._promo_gap_percent
_promo_gap_percent(offers) ==
    LET promo_values == {_promo_percent(offers[i].promo_text, offers[i].price) :
                            i \in 1..Len(offers)}
    IN  IF promo_values = {} \/ SetMax(promo_values) = 0 THEN 0
        ELSE SetMax(promo_values) - SetMin(promo_values)

\* sorted(cluster.offers, key=price): a stable sort
RECURSIVE InsertByPrice(_, _)
InsertByPrice(sorted, x) ==
    IF sorted = <<>> THEN <<x>>
    ELSE IF x.price < Head(sorted).price THEN <<x>> \o sorted
    ELSE <<Head(sorted)>> \o InsertByPrice(Tail(sorted), x)
RECURSIVE SortByPrice(_)
SortByPrice(s) ==
    IF s = <<>> THEN <<>>
    ELSE InsertByPrice(SortByPrice(SubSeq(s, 1, Len(s) - 1)), s[Len(s)])

\* line 20-22
SpreadPercent(lowest, highest) ==
    IF lowest.price > 0
    THEN RoundDiv((highest.price - lowest.price) * 10000, lowest.price)
    ELSE 0

MinAlertOffers == 3
AlertConfidence == 850
AlertSpread == 800
AlertPromoGap == 1000
USABLE_CONDITIONS == {"new", "unknown"}

\* the alert gate with len(offers) >= 2 for len(offers) >= 3
AlertEligible_two_offers(offers, confidence, spread_percent, promo_gap) ==
    /\ Len(offers) >= 2
    /\ \A i \in 1..Len(offers) : offers[i].condition \in USABLE_CONDITIONS
    /\ confidence >= AlertConfidence
    /\ (spread_percent >= AlertSpread \/ promo_gap >= AlertPromoGap)

\* line 26-31: the alert gate
AlertEligible(offers, confidence, spread_percent, promo_gap) ==
    /\ Len(offers) >= MinAlertOffers
    /\ \A i \in 1..Len(offers) : offers[i].condition \in USABLE_CONDITIONS
    /\ confidence >= AlertConfidence
    /\ (spread_percent >= AlertSpread \/ promo_gap >= AlertPromoGap)

CriticalGap == 2500
HighGap == 1500
WatchGap == 800

\* the label taken from the gap alone, without the `if alert_eligible`
Label_ungated(alert_eligible, effective_gap) ==
    IF effective_gap >= CriticalGap THEN "critical"
    ELSE IF effective_gap >= HighGap THEN "high"
    ELSE IF effective_gap >= WatchGap THEN "watch"
    ELSE "none"

\* line 33-40
Label(alert_eligible, effective_gap) ==
    IF ~alert_eligible THEN "none"
    ELSE IF effective_gap >= CriticalGap THEN "critical"
    ELSE IF effective_gap >= HighGap THEN "high"
    ELSE IF effective_gap >= WatchGap THEN "watch"
    ELSE "none"

ConfidenceFloor == 250
ConfidenceCeiling == 990
ThinClusterPenalty == 50

\* line 42: round(min(0.99, max(0.25, confidence - penalty)), 2)
BaseConfidence(offers, confidence) ==
    LET penalty == IF Len(offers) < MinAlertOffers THEN ThinClusterPenalty ELSE 0
    IN  10 * RoundDiv(Min2(ConfidenceCeiling, Max2(ConfidenceFloor, confidence - penalty)), 10)

\* line 89: round(max(0.25, min(0.99, confidence + adjustment)), 2)
NudgedConfidence(confidence, adjustment) ==
    10 * RoundDiv(Max2(ConfidenceFloor, Min2(ConfidenceCeiling, confidence + adjustment)), 10)

\* line 43-62: the template text, by the branch that writes it and the
\* values it formats
TemplateText(offers, alert_eligible, spread_percent, promo_gap, lowest, highest) ==
    IF Len(offers) < MinAlertOffers
    THEN [reasoning |-> [source |-> "insufficient", text |-> <<>>,
                         sellers |-> <<lowest.seller_name, highest.seller_name>>,
                         numbers |-> <<Len(offers), spread_percent>>],
          claim_style_text |-> [source |-> "insufficient", text |-> <<>>]]
    ELSE IF alert_eligible
    THEN [reasoning |-> [source |-> "alert", text |-> <<>>,
                         sellers |-> <<lowest.seller_name, highest.seller_name>>,
                         numbers |-> <<spread_percent, promo_gap>>],
          claim_style_text |-> [source |-> "alert", text |-> <<>>]]
    ELSE [reasoning |-> [source |-> "below-gate", text |-> <<>>,
                         sellers |-> <<>>,
                         numbers |-> <<Len(offers), spread_percent>>],
          claim_style_text |-> [source |-> "below-gate", text |-> <<>>]]

\* line 18-25: the statistics of the sorted offers
PriceStats(offers) ==
    [lowest |-> offers[1],
     highest |-> offers[Len(offers)],
     spread_percent |-> SpreadPercent(offers[1], offers[Len(offers)]),
     promo_gap |-> _promo_gap_percent(offers)]

\* line 33-71 and 91-101: the finding before the LLM is asked
DraftFinding(offers, confidence, stats, alert_eligible) ==
    [label |-> Label(alert_eligible, Max2(stats.spread_percent, stats.promo_gap)),
     alert_eligible |-> alert_eligible,
     spread_percent |-> stats.spread_percent,
     lowest_offer_id |-> stats.lowest.offer_id,
     highest_offer_id |-> stats.highest.offer_id,
     reasoning |-> TemplateText(offers, alert_eligible, stats.spread_percent,
                                stats.promo_gap, stats.lowest, stats.highest).reasoning,
     confidence |-> BaseConfidence(offers, confidence),
     claim_style_text |-> TemplateText(offers, alert_eligible, stats.spread_percent,
                                stats.promo_gap, stats.lowest, stats.highest).claim_style_text,
     evidence_notes |-> "list-prices-only; new-or-unknown; excludes-tax-shipping; not-proof"]

\* line 26-31, then the draft
GatedFinding(offers, confidence, stats) ==
    DraftFinding(offers, confidence, stats,
                 AlertEligible(offers, confidence, stats.spread_percent, stats.promo_gap))

\* line 86-89: what a narrative replaces
Narrated(finding, narrative) ==
    IF narrative.ok
    THEN [finding EXCEPT
            !.reasoning = [source |-> "llm", text |-> narrative.reasoning,
                           sellers |-> <<>>, numbers |-> <<>>],
            !.claim_style_text = [source |-> "llm", text |-> narrative.claim_style_text],
            !.confidence = NudgedConfidence(@, narrative.confidence_adjustment)]
    ELSE finding

\* line 73-85: the narrative, if the service has an enabled LLM
Narrative(llm, offers, raw) ==
    IF llm.present /\ enabled(llm)
    THEN explain_pricing_comparison(llm, offers, raw)
    ELSE NoNarrative

\* analyze over the sorted offers
AnalyzeSorted(offers, confidence, llm, raw) ==
    Narrated(GatedFinding(offers, confidence, PriceStats(offers)),
             Narrative(llm, offers, raw))

\* DifferentialPricingService.analyze(query, cluster). llm is self.llm; raw is
\* the answer the LLM transport gives if it is asked.  The query only goes
\* into the prompt.
analyze(cluster, llm, raw) ==
    AnalyzeSorted(SortByPrice(cluster.offers), cluster.confidence, llm, raw)

(***************************************************************************)
(* Instances of analyze: the clusters, LLM clients and LLM answers drawn.  *)
(***************************************************************************)
NoText == <<>>
BestBuy == <<"B","e","s","t"," ","B","u","y">>
MicroCenter == <<"M","i","c","r","o"," ","C","e","n","t","e","r">>
Amazon == <<"A","m","a","z","o","n">>
Walmart == <<"W","a","l","m","a","r","t">>
bestbuy_com == <<"b","e","s","t","b","u","y",".","c","o","m">>
microcenter_com == <<"m","i","c","r","o","c","e","n","t","e","r",".","c","o","m">>
amazon_com == <<"a","m","a","z","o","n",".","c","o","m">>
walmart_com == <<"w","a","l","m","a","r","t",".","c","o","m">>
TenPercentOff == <<"1","0","%"," ","o","f","f">>
Save30Dollars == <<"S","a","v","e"," ","$","3","0"," ","n","o","w">>
Save30Decimal == <<"s","a","v","e","$"," ","3","0",".","0","0">>
TwentyFivePercentOff == <<"N","o","w"," ","2","5"," ","%"," ","O","F","F">>
FreeShipping == <<"F","r","e","e"," ","s","h","i","p","p","i","n","g">>
SonyTitle == <<"S","o","n","y"," ","W","H","-","1","0","0","0","X","M","5">>
Sony == <<"S","o","n","y">>
WH1000XM5 == <<"W","H","-","1","0","0","0","X","M","5">>
ExampleUrl == <<"h","t","t","p","s",":","/","/","e","x","a","m","p","l","e",".","c","o","m","/","p">>

\* The offers a cluster handed to analyze is made of: prices with spreads
\* below 8%, at 8.00% (299.99 to 323.99), and up to 16.67%, two offers at one
\* price, conditions in and out of {new, unknown}, and promo texts of each of
\* the four kinds _promo_percent tells apart.
PricedOffer(id, seller, domain, price, condition, promo) ==
    PurchaseOption(id, seller, domain, SonyTitle, Sony, WH1000XM5, NoText, price,
                   condition, promo, ExampleUrl, 9500, <<>>)

AnalyzeOfferPool ==
    { PricedOffer("1", BestBuy, bestbuy_com, 34999, "used", FreeShipping),
      PricedOffer("2", MicroCenter, microcenter_com, 29999, "new", NoText),
      PricedOffer("3", Amazon, amazon_com, 33999, "new", TwentyFivePercentOff),
      PricedOffer("4", Walmart, walmart_com, 32999, "unknown", TenPercentOff),
      PricedOffer("5", Amazon, amazon_com, 32399, "new", Save30Dollars),
      PricedOffer("6", Walmart, walmart_com, 32399, "new", Save30Decimal) }

\* the largest cluster drawn
MaxClusterOffers == 3

\* the sequences of 1..n distinct members of S
RECURSIVE DistinctSeqs(_, _)
DistinctSeqs(S, n) ==
    IF n = 0 THEN {<<>>}
    ELSE LET shorter == DistinctSeqs(S, n - 1)
         IN  shorter \cup
             {Append(q, x) : <<q, x>> \in
                 {<<q, x>> \in shorter \X S : Len(q) = n - 1 /\ x \notin Range(q)}}

\* cluster.confidence in thousandths: far below, just below (and off the
\* hundredths grid), at and above the 0.85 gate
ClusterConfidences == {200, 845, 850, 960}

AnalyzeClusters ==
    [confidence : ClusterConfidences,
     offers : DistinctSeqs(AnalyzeOfferPool, MaxClusterOffers) \ {<<>>}]

LLMClients == {NoLLM, LLMClient(FALSE, "gemini"), LLMClient(TRUE, "gemini"),
               LLMClient(TRUE, "generic")}

LlmReasoning == <<"P","r","i","c","e","s"," ","d","i","f","f","e","r">>
LlmClaim == <<"N","o"," ","a","l","e","r","t">>
Blank == <<" ">>

\* confidence_adjustment as the LLM may send it: inside and outside
\* [-0.1, 0.1], off the hundredths grid, and not a number
RawAdjustments ==
    {[numeric |-> TRUE, number |-> n] : n \in {-500, -45, 150}}
    \cup {[numeric |-> FALSE, number |-> 0]}

\* the answers of _call_json to the narrative request
RawNarratives ==
    {NoJson, NonObjectJson}
    \cup [ok : {TRUE}, object : {TRUE},
          reasoning : {LlmReasoning}, claim_style_text : {LlmClaim},
          confidence_adjustment : RawAdjustments]
    \cup [ok : {TRUE}, object : {TRUE},
          reasoning : {Blank}, claim_style_text : {LlmClaim},
          confidence_adjustment : {[numeric |-> TRUE, number |-> 100]}]
    \cup [ok : {TRUE}, object : {TRUE},
          reasoning : {LlmReasoning}, claim_style_text : {NoText},
          confidence_adjustment : {[numeric |-> TRUE, number |-> 100]}]

(***************************************************************************)
(* The analyze instance: one cluster, analysed again and again, the LLM    *)
(* free to answer differently every time.                                  *)
(***************************************************************************)
a_vars == <<a_cluster, a_llm, a_finding, a_error>>
m_vars == <<m_query, m_offers, m_llm, m_result, m_llm_calls, m_raw, m_error>>
r_vars == <<r_query, r_offers, r_result>>
p_vars == <<p_policy, p_snapshot, p_history, p_result>>
h_vars == <<h_store, h_result, h_calls>>
d_vars == <<d_service, d_query, d_pages, d_result, d_error>>
e_vars == <<e_service, e_candidates, e_fetches, e_order, e_result>>
c_vars == <<c_request, c_discovery, c_pages, c_response, c_error>>
o_vars == <<o_settings, o_snapshots, o_signals, o_actions, o_confidence, o_clock, o_calls>>
vars == <<op, a_vars, m_vars, r_vars, p_vars, h_vars, d_vars, e_vars, c_vars, o_vars>>

\* the variables of the other services, which a call of one service leaves alone
not_a_vars == <<m_vars, r_vars, p_vars, h_vars, d_vars, e_vars, c_vars, o_vars>>
not_m_vars == <<a_vars, r_vars, p_vars, h_vars, d_vars, e_vars, c_vars, o_vars>>
not_r_vars == <<a_vars, m_vars, p_vars, h_vars, d_vars, e_vars, c_vars, o_vars>>
not_p_vars == <<a_vars, m_vars, r_vars, h_vars, d_vars, e_vars, c_vars, o_vars>>
not_h_vars == <<a_vars, m_vars, r_vars, p_vars, d_vars, e_vars, c_vars, o_vars>>
not_d_vars == <<a_vars, m_vars, r_vars, p_vars, h_vars, e_vars, c_vars, o_vars>>
not_e_vars == <<a_vars, m_vars, r_vars, p_vars, h_vars, d_vars, c_vars, o_vars>>
not_c_vars == <<a_vars, m_vars, r_vars, p_vars, h_vars, d_vars, e_vars, o_vars>>
not_o_vars == <<a_vars, m_vars, r_vars, p_vars, h_vars, d_vars, e_vars, c_vars>>

\* no call of analyze in the instance
IdleAnalyze ==
    /\ a_cluster = <<>>
    /\ a_llm = NoLLM
    /\ a_finding = <<>>
    /\ a_error = ""

\* no call of match in the instance
IdleMatch ==
    /\ m_query = <<>>
    /\ m_offers = <<>>
    /\ m_llm = NoLLM
    /\ m_result = <<>>
    /\ m_llm_calls = 0
    /\ m_raw = <<>>
    /\ m_error = ""

IdleRank ==
    /\ r_query = <<>>
    /\ r_offers = <<>>
    /\ r_result = <<>>

\* no call of detect in the instance
IdleDetect ==
    /\ p_policy = <<>>
    /\ p_snapshot = <<>>
    /\ p_history = <<>>
    /\ p_result = <<>>

\* no call of the history service in the instance
IdleHistory ==
    /\ h_store = <<>>
    /\ h_result = <<>>
    /\ h_calls = 0

\* no call of discover in the instance
IdleDiscover ==
    /\ d_service = <<>>
    /\ d_query = <<>>
    /\ d_pages = <<>>
    /\ d_result = <<>>
    /\ d_error = ""

\* no call of extract_many in the instance
IdleExtract ==
    /\ e_service = <<>>
    /\ e_candidates = <<>>
    /\ e_fetches = <<>>
    /\ e_order = <<>>
    /\ e_result = <<>>

\* no request to /api/compare in the instance
IdleCompare ==
    /\ c_request = <<>>
    /\ c_discovery = <<>>
    /\ c_pages = <<>>
    /\ c_response = <<>>
    /\ c_error = ""

\* no call of run_once or of the store's strategy operations in the instance
IdleOrchestrate ==
    /\ o_settings = <<>>
    /\ o_snapshots = <<>>
    /\ o_signals = <<>>
    /\ o_actions = <<>>
    /\ o_confidence = <<>>
    /\ o_clock = 0
    /\ o_calls = <<>>

\* an instance exercises one service: the others make no call
IdleOthers(service) ==
    /\ IF service = "analyze" THEN TRUE ELSE IdleAnalyze
    /\ IF service = "match" THEN TRUE ELSE IdleMatch
    /\ IF service = "rank" THEN TRUE ELSE IdleRank
    /\ IF service = "detect" THEN TRUE ELSE IdleDetect
    /\ IF service = "history" THEN TRUE ELSE IdleHistory
    /\ IF service = "discover" THEN TRUE ELSE IdleDiscover
    /\ IF service = "extract" THEN TRUE ELSE IdleExtract
    /\ IF service = "compare" THEN TRUE ELSE IdleCompare
    /\ IF service = "run_once" THEN TRUE ELSE IdleOrchestrate

InitAnalyze ==
    /\ op = "analyze"
    /\ a_cluster \in AnalyzeClusters
    /\ a_llm = NoLLM
    /\ a_finding = <<>>
    /\ a_error = ""
    /\ IdleOthers("analyze")

\* whether analyze reaches LLMClient._call_json (differential_pricing.py
\* line 73, llm_client.py line 153)
NarrativeRequested(llm, cluster) ==
    /\ llm.present
    /\ enabled(llm)
    /\ llm.provider = "gemini"
    /\ Len(cluster.offers) >= 2

\* DifferentialPricingService(llm).analyze(query, cluster) with no request
\* to the LLM
AnalyzeOffline(llm) ==
    /\ op = "analyze"
    /\ ~NarrativeRequested(llm, a_cluster)
    /\ a_llm' = llm
    /\ a_finding' = <<analyze(a_cluster, llm, NoJson)>>
    /\ a_error' = ""
    /\ UNCHANGED <<op, a_cluster, not_a_vars>>

\* DifferentialPricingService(llm).analyze(query, cluster), the LLM
\* answering raw
AnalyzeWithNarrative(llm, raw) ==
    /\ op = "analyze"
    /\ NarrativeRequested(llm, a_cluster)
    /\ a_llm' = llm
    /\ IF RawGetRaises(raw)
       THEN a_error' = "AttributeError" /\ UNCHANGED a_finding
       ELSE a_error' = "" /\ a_finding' = <<analyze(a_cluster, llm, raw)>>
    /\ UNCHANGED <<op, a_cluster, not_a_vars>>

NextAnalyze ==
    \/ \E llm \in LLMClients : AnalyzeOffline(llm)
    \/ \E llm \in LLMClients, raw \in RawNarratives : AnalyzeWithNarrative(llm, raw)

SpecAnalyze == InitAnalyze /\ [][NextAnalyze]_vars


(***************************************************************************)
(* Properties of analyze                                                   *)
(***************************************************************************)
AllUsable(offers) == \A i \in 1..Len(offers) : offers[i].condition \in {"new", "unknown"}

\* C1: the finding of analyze is alert_eligible if and only if the cluster has
\* at least 3 member offers, every member's condition is new or unknown, the
\* cluster confidence is at least 0.85, and spread_percent >= 8.0 or
\* promo_gap >= 10.0; a cluster of exactly 2 offers is never alert_eligible
\* and gets the label none.
C1_AlertGate ==
    a_finding # <<>> =>
        LET f == a_finding[1]
            members == a_cluster.offers
        IN  /\ f.alert_eligible <=>
                   /\ Len(members) >= 3
                   /\ AllUsable(members)
                   /\ a_cluster.confidence >= 850
                   /\ (f.spread_percent >= 800 \/ _promo_gap_percent(members) >= 1000)
            /\ Len(members) = 2 => (~f.alert_eligible /\ f.label = "none")

\* C1 witness: a finding that is alert_eligible on the promo gap alone
C1_Witness ==
    /\ a_finding # <<>>
    /\ a_finding[1].alert_eligible
    /\ a_finding[1].spread_percent < 800
    /\ Len(a_cluster.offers) = 3

\* C2: the label is none unless alert_eligible; when alert_eligible it is
\* critical, high or watch by effective_gap = max(spread_percent, promo_gap)
\* against 25, 15 and 8, and never none.
C2_LabelFollowsGate ==
    a_finding # <<>> =>
        LET f == a_finding[1]
            effective_gap == Max2(f.spread_percent, _promo_gap_percent(a_cluster.offers))
        IN  /\ (f.label # "none") <=> f.alert_eligible
            /\ f.alert_eligible =>
                   /\ effective_gap >= 800
                   /\ f.label = "critical" <=> effective_gap >= 2500
                   /\ f.label = "high" <=> (effective_gap >= 1500 /\ effective_gap < 2500)
                   /\ f.label = "watch" <=> effective_gap < 1500

\* C2 witness: an alert_eligible finding at the lowest label
C2_Witness ==
    /\ a_finding # <<>>
    /\ a_finding[1].alert_eligible
    /\ a_finding[1].label = "watch"

Abs(x) == IF x < 0 THEN -x ELSE x

COMMON_BRANDS ==
    { <<"a","p","p","l","e">>, <<"s","o","n","y">>, <<"s","a","m","s","u","n","g">>,
      <<"b","o","s","e">>, <<"g","o","o","g","l","e">>, <<"m","i","c","r","o","s","o","f","t">>,
      <<"j","b","l">>, <<"b","e","a","t","s">>, <<"l","g">>,
      <<"h","p">>, <<"d","e","l","l">>, <<"l","e","n","o","v","o">>,
      <<"a","s","u","s">>, <<"a","c","e","r">>, <<"c","a","n","o","n">>,
      <<"n","i","k","o","n">>, <<"m","e","t","a">>, <<"a","n","k","e","r">>,
      <<"n","i","n","t","e","n","d","o">>, <<"l","o","g","i","t","e","c","h">>, <<"m","a","r","s","h","a","l","l">>,
      <<"r","a","z","e","r">> }

GENERIC_MODEL_STOPWORDS ==
    { <<"w","i","r","e","l","e","s","s">>, <<"g","a","m","i","n","g">>,
      <<"m","o","u","s","e">>, <<"h","e","a","d","p","h","o","n","e","s">>,
      <<"h","e","a","d","s","e","t">>, <<"e","a","r","b","u","d","s">>,
      <<"e","s","p","o","r","t","s">>, <<"b","l","a","c","k">>,
      <<"w","h","i","t","e">>, <<"s","i","l","v","e","r">>,
      <<"b","l","u","e">>, <<"r","e","d">>,
      <<"g","r","e","e","n">>, <<"p","i","n","k">>,
      <<"e","d","i","t","i","o","n">>, <<"s","e","r","i","e","s">>,
      <<"g","e","n","e","r","a","t","i","o","n">>, <<"g","e","n">>,
      <<"w","i","t","h">>, <<"f","o","r">> }

\* the alternatives of CAPACITY_PATTERN, in the order of the pattern
CAPACITY_TOKENS ==
    << <<"3","2","g","b">>, <<"6","4","g","b">>, <<"1","2","8","g","b">>, <<"2","5","6","g","b">>,
      <<"5","1","2","g","b">>, <<"1","t","b">>, <<"2","t","b">> >>

LetterSet == LowerSet \cup UpperSet
AlnumSet == LetterSet \cup DigitSet
\* [A-Z0-9-] under IGNORECASE, [a-zA-Z0-9-]
ModelTailSet == AlnumSet \cup {"-"}
\* [-/]
ModelSeparators == {"-", "/"}

\* re.sub(r"[^a-z0-9]+", " ", s) from position i: every maximal run of other
\* characters becomes one blank (in_run: the run's blank is already written)
RECURSIVE SubNonAlnum(_, _, _)
SubNonAlnum(s, i, in_run) ==
    IF i > Len(s) THEN <<>>
    ELSE IF s[i] \in LowerSet \/ s[i] \in DigitSet
         THEN <<s[i]>> \o SubNonAlnum(s, i + 1, FALSE)
         ELSE IF in_run THEN SubNonAlnum(s, i + 1, TRUE)
         ELSE <<" ">> \o SubNonAlnum(s, i + 1, TRUE)

\* normalize_text
normalize_text(value) == Strip(SubNonAlnum(Lower(value), 1, FALSE))

\* infer_brand
infer_brand(title) ==
    LET tokens == Split(normalize_text(title))
        known == {i \in 1..Min2(3, Len(tokens)) : tokens[i] \in COMMON_BRANDS}
    IN  IF known # {} THEN Title(tokens[SetMin(known)])
        ELSE IF tokens # <<>> THEN Title(tokens[1])
        ELSE <<>>

\* [A-Z0-9-]{least,}\b at position p, greedy: the number of characters it
\* takes, 0 if it does not match
TailLen(s, p, least) ==
    LET longest == RunLen(s, p, ModelTailSet)
        fits == {m \in least..longest : Boundary(s, p + m)}
    IN  IF fits = {} THEN 0 ELSE SetMax(fits)

\* (?:[-/][A-Z0-9]{2,})* at position p, greedy: the position after it
RECURSIVE SegmentsEnd(_, _)
SegmentsEnd(s, p) ==
    IF p <= Len(s) /\ s[p] \in ModelSeparators /\ RunLen(s, p + 1, AlnumSet) >= 2
    THEN SegmentsEnd(s, p + 1 + RunLen(s, p + 1, AlnumSet))
    ELSE p

\* MODEL_PATTERNS[n - 1] matched at position i: the position of the last
\* character of the match, 0 without a match.  The letters before a
\* separator or a digit are a whole run of letters, the groups of pattern 2
\* whole runs of [A-Z0-9] (a shorter one ends inside a word, where neither the
\* next element nor \b matches); such a run ends at a \b, the alphabet having
\* no underscore.
ModelPatternEnd(n, s, i) ==
    IF ~Boundary(s, i) THEN 0
    ELSE IF n = 1
    THEN LET k == RunLen(s, i, LetterSet)
         IN  IF k >= 1 /\ k <= 5 /\ i + k <= Len(s) /\ s[i + k] \in ModelSeparators
                /\ TailLen(s, i + k + 1, 2) > 0
             THEN i + k + TailLen(s, i + k + 1, 2) ELSE 0
    ELSE IF n = 2
    THEN LET a == RunLen(s, i, AlnumSet)
         IN  IF a >= 2 /\ SegmentsEnd(s, i + a) > i + a
             THEN SegmentsEnd(s, i + a) - 1 ELSE 0
    ELSE LET k == RunLen(s, i, LetterSet)
         IN  IF k >= 1 /\ k <= 4 /\ i + k <= Len(s) /\ IsDigit(s[i + k])
                /\ TailLen(s, i + k + 1, 2) > 0
             THEN i + k + TailLen(s, i + k + 1, 2) ELSE 0

\* MODEL_PATTERNS[n - 1].search(text): group(0) of the leftmost match, empty
\* without a match
ModelPatternSearch(n, s) ==
    LET starts == {i \in 1..Len(s) : ModelPatternEnd(n, s, i) > 0}
    IN  IF starts = {} THEN <<>>
        ELSE SubSeq(s, SetMin(starts), ModelPatternEnd(n, s, SetMin(starts)))

\* re.findall(r"\b[A-Za-z0-9]+\b", text) from position i: the maximal runs
\* of [A-Za-z0-9]
RECURSIVE AlnumTokens(_, _)
AlnumTokens(s, i) ==
    IF i > Len(s) THEN <<>>
    ELSE IF s[i] \in AlnumSet
         THEN <<SubSeq(s, i, i + RunLen(s, i, AlnumSet) - 1)>>
              \o AlnumTokens(s, i + RunLen(s, i, AlnumSet))
         ELSE AlnumTokens(s, i + 1)

HasDigit(s) == \E i \in 1..Len(s) : IsDigit(s[i])
HasLetter(s) == \E i \in 1..Len(s) : IsLetter(s[i])

\* "".join(parts)
RECURSIVE Concat(_)
Concat(parts) == IF parts = <<>> THEN <<>> ELSE Head(parts) \o Concat(Tail(parts))

CompoundMinLen == 4
CompoundMaxLen == 18
CompoundLongPart == 4
CompoundFreeLen == 10
DigitPartWeight == 3
ShortPartWeight == 2

\* _extract_compound_model_identifier line 211-223: the window parts as a
\* candidate, score -1 for a window the loop skips
CompoundCandidate(parts) ==
    LET combined == Upper(Concat(parts))
        skipped ==
            \/ \E k \in 1..Len(parts) :
                   Lower(parts[k]) \in COMMON_BRANDS \/ Lower(parts[k]) \in GENERIC_MODEL_STOPWORDS
            \/ ~HasDigit(parts[1]) /\ Len(parts[1]) > CompoundLongPart
            \/ Len(combined) < CompoundMinLen \/ Len(combined) > CompoundMaxLen
            \/ ~HasLetter(combined) \/ ~HasDigit(combined)
        digit_parts == Cardinality({k \in 1..Len(parts) : HasDigit(parts[k])})
        short_parts == Cardinality({k \in 1..Len(parts) : Len(parts[k]) <= CompoundLongPart})
    IN  [combined |-> combined,
         score |-> IF skipped THEN -1
                   ELSE digit_parts * DigitPartWeight + short_parts * ShortPartWeight
                        - Max2(Len(combined) - CompoundFreeLen, 0)]

\* the windows in the order the loops visit them: width 3, then width 2
CompoundWindows(tokens) ==
    [k \in 1..Max2(Len(tokens) - 2, 0) |-> SubSeq(tokens, k, k + 2)]
    \o [k \in 1..Max2(Len(tokens) - 1, 0) |-> SubSeq(tokens, k, k + 1)]

\* line 224-226 over the windows from k on
RECURSIVE BestCompound(_, _, _, _)
BestCompound(windows, k, best, best_score) ==
    IF k > Len(windows) THEN best
    ELSE IF CompoundCandidate(windows[k]).score > best_score
         THEN BestCompound(windows, k + 1, CompoundCandidate(windows[k]).combined,
                           CompoundCandidate(windows[k]).score)
         ELSE BestCompound(windows, k + 1, best, best_score)

\* _extract_compound_model_identifier
_extract_compound_model_identifier(text) ==
    BestCompound(CompoundWindows(AlnumTokens(text, 1)), 1, <<>>, -1)

FallbackTokenMinLen == 4

\* re.findall(r"\b[a-zA-Z0-9-]{4,}\b", text) from position i
RECURSIVE FindModelTokens(_, _)
FindModelTokens(s, i) ==
    IF i > Len(s) THEN <<>>
    ELSE IF Boundary(s, i) /\ TailLen(s, i, FallbackTokenMinLen) > 0
         THEN <<SubSeq(s, i, i + TailLen(s, i, FallbackTokenMinLen) - 1)>>
              \o FindModelTokens(s, i + TailLen(s, i, FallbackTokenMinLen))
         ELSE FindModelTokens(s, i + 1)

\* line 47-52: the first token with a letter and a digit, in upper case
FallbackModelToken(text) ==
    LET found == FindModelTokens(text, 1)
        mixed == {k \in 1..Len(found) : HasLetter(found[k]) /\ HasDigit(found[k])}
    IN  IF mixed = {} THEN <<>> ELSE Upper(found[SetMin(mixed)])

\* extract_model_identifier
extract_model_identifier(text) ==
    IF ModelPatternSearch(1, text) # <<>> THEN Upper(ModelPatternSearch(1, text))
    ELSE IF ModelPatternSearch(2, text) # <<>> THEN Upper(ModelPatternSearch(2, text))
    ELSE IF ModelPatternSearch(3, text) # <<>> THEN Upper(ModelPatternSearch(3, text))
    ELSE IF _extract_compound_model_identifier(text) # <<>>
         THEN _extract_compound_model_identifier(text)
    ELSE FallbackModelToken(text)

\* CAPACITY_PATTERN matched at position i: the alternatives that match there
CapacityAt(text, i) ==
    {k \in 1..Len(CAPACITY_TOKENS) :
        /\ StartsAtIgnoreCase(text, i, CAPACITY_TOKENS[k])
        /\ Boundary(text, i + Len(CAPACITY_TOKENS[k]))}

\* extract_variant_token: CAPACITY_PATTERN.search(text).group(1).lower()
extract_variant_token(text) ==
    LET starts == {i \in 1..Len(text) :
                      IsDigit(text[i]) /\ Boundary(text, i) /\ CapacityAt(text, i) # {}}
    IN  IF starts = {} THEN <<>>
        ELSE CAPACITY_TOKENS[SetMin(CapacityAt(text, SetMin(starts)))]

SkuMinLen == 6
SkuMaxLetters == 2
SkuDigitsPerLetter == 2

\* classify_exact_match_method
classify_exact_match_method(model) ==
    LET normalized == Upper(model)
        letters == Cardinality({i \in 1..Len(normalized) : normalized[i] \in UpperSet})
        digits == Cardinality({i \in 1..Len(normalized) : IsDigit(normalized[i])})
    IN  IF digits > 0 /\ letters = 0 THEN "exact_sku"
        ELSE IF /\ Len(normalized) >= SkuMinLen
                /\ \A i \in 1..Len(normalized) :
                       normalized[i] \in UpperSet \cup DigitSet \cup {"-"}
                /\ digits >= letters * SkuDigitsPerLetter
                /\ letters <= SkuMaxLetters
        THEN "exact_sku"
        ELSE "exact_model"

(***************************************************************************)
(* app/adapters/llm_client.py: match_same_product                          *)
(***************************************************************************)
\* LLMClient._sanitize_indexes over the items from k on.  An item is a JSON
\* value: int tells whether isinstance(item, int) holds (it does for a JSON
\* integer and for true and false, which count as 1 and 0), n is its value.
RECURSIVE SanitizeFrom(_, _, _, _)
SanitizeFrom(items, k, size, indexes) ==
    IF k > Len(items) THEN indexes
    ELSE IF /\ items[k].int
            /\ 0 <= items[k].n /\ items[k].n < size
            /\ \A j \in 1..Len(indexes) : indexes[j] # items[k].n
         THEN SanitizeFrom(items, k + 1, size, Append(indexes, items[k].n))
         ELSE SanitizeFrom(items, k + 1, size, indexes)

\* the integers of items as they come
RECURSIVE IntsFrom(_, _)
IntsFrom(items, k) ==
    IF k > Len(items) THEN <<>>
    ELSE (IF items[k].int THEN <<items[k].n>> ELSE <<>>) \o IntsFrom(items, k + 1)
_sanitize_indexes_ints_only(items, size) == IntsFrom(items, 1)

_sanitize_indexes(items, size) == SanitizeFrom(items, 1, size, <<>>)

\* for item in items: raises TypeError on a JSON value that is not iterable
\* (null, a number, true, false)
IndexesRaise(raw) == raw.ok /\ raw.object /\ ~raw.matched_indexes.iterable

MinMatchedIndexes == 2
MatchClampLow == 0
MatchClampHigh == 1000

NoSameProductMatch == [ok |-> FALSE, matched_indexes |-> <<>>, confidence |-> 0,
                       rationale |-> <<>>]

\* LLMClient.match_same_product. raw is what _call_json returns; the
\* confidence is in thousandths.
match_same_product(llm, offers, raw) ==
    IF ~enabled(llm) \/ llm.provider # "gemini" \/ Len(offers) < 2 THEN NoSameProductMatch
    ELSE IF ~raw.ok THEN NoSameProductMatch
    ELSE IF Len(_sanitize_indexes(raw.matched_indexes.items, Len(offers))) < MinMatchedIndexes
         THEN NoSameProductMatch
    ELSE [ok |-> TRUE,
          matched_indexes |-> _sanitize_indexes(raw.matched_indexes.items, Len(offers)),
          confidence |-> _clamp_float(raw.confidence, MatchClampLow, MatchClampHigh),
          rationale |-> Strip(raw.rationale)]

(***************************************************************************)
(* app/services/product_matcher.py: ProductMatcherService                  *)
(***************************************************************************)
\* x or y for str
OrElse(x, y) == IF x # <<>> THEN x ELSE y

\* line 160-167 given the brand, model and variant of line 157-159
Enriched(offer, brand, model, variant) ==
    [offer EXCEPT
        !.brand = brand, !.model = model, !.variant = variant,
        !.parse_notes =
            @ \o (IF offer.brand = <<>> /\ brand # <<>> THEN <<"brand-inferred">> ELSE <<>>)
              \o (IF offer.model = <<>> /\ model # <<>> THEN <<"model-inferred">> ELSE <<>>)
              \o (IF offer.variant = <<>> /\ variant # <<>> THEN <<"variant-inferred">> ELSE <<>>)]

\* line 159-167 given the model of line 158
EnrichedWithModel(offer, model) ==
    Enriched(offer, OrElse(offer.brand, infer_brand(offer.title)), model,
             OrElse(offer.variant, extract_variant_token(offer.title \o <<" ">> \o model)))

\* the model taken from the title, whatever the offer has
_enrich_offer_retitled(offer) ==
    EnrichedWithModel(offer, extract_model_identifier(offer.title))

\* ProductMatcherService._enrich_offer
_enrich_offer(offer) ==
    EnrichedWithModel(offer, OrElse(offer.model, extract_model_identifier(offer.title)))

\* ProductMatcherService._seller_or_domain
_seller_or_domain(offer) == normalize_text(OrElse(offer.seller_name, offer.source_domain))

\* {self._seller_or_domain(offer) for offer in offers}
SellersOrDomains(offers) == {_seller_or_domain(offers[i]) : i \in 1..Len(offers)}

\* no check of the brands
_same_brand_unchecked(offers) == TRUE

\* ProductMatcherService._same_brand
_same_brand(offers) ==
    Cardinality({normalize_text(offers[i].brand) :
                    i \in {j \in 1..Len(offers) : offers[j].brand # <<>>}}) <= 1

\* no check of the variants
_variant_conflict_unchecked(offers) == FALSE

\* ProductMatcherService._variant_conflict
_variant_conflict(offers) ==
    Cardinality({offers[i].variant :
                    i \in {j \in 1..Len(offers) : offers[j].variant # <<>>}}) > 1

\* ProductMatcherService._dominant_value: the most frequent non-empty value;
\* max() over the dict returns the first of the most frequent ones in
\* insertion order, the order of first occurrence
_dominant_value(values) ==
    LET count(v) == Cardinality({i \in 1..Len(values) : values[i] = v})
        top == {i \in 1..Len(values) :
                   /\ values[i] # <<>>
                   /\ \A j \in 1..Len(values) :
                          values[j] # <<>> => count(values[j]) <= count(values[i])}
    IN  IF top = {} THEN <<>> ELSE values[SetMin(top)]

Brands(offers) == [i \in 1..Len(offers) |-> offers[i].brand]
Models(offers) == [i \in 1..Len(offers) |-> offers[i].model]
Variants(offers) == [i \in 1..Len(offers) |-> offers[i].variant]

KeySeparator == <<":", ":">>

\* the group key of brand and model as spelled
GroupKey_as_spelled(offer) ==
    offer.brand \o KeySeparator \o offer.model \o KeySeparator \o offer.variant

\* line 117: the group key
GroupKey(offer) ==
    normalize_text(offer.brand) \o KeySeparator \o normalize_text(offer.model)
    \o KeySeparator \o offer.variant

\* sorted(set of str)
RECURSIVE SortedStrings(_)
SortedStrings(S) ==
    IF S = {} THEN <<>>
    ELSE LET least == CHOOSE x \in S : \A y \in S : y = x \/ StrLess(x, y)
         IN  <<least>> \o SortedStrings(S \ {least})

\* the source domain of each offer, as listed
Domains_listed(offers) == [i \in 1..Len(offers) |-> offers[i].source_domain]

\* sorted({offer.source_domain for offer in updated})
Domains(offers) == SortedStrings({offers[i].source_domain : i \in 1..Len(offers)})

\* offer.model_copy(update={"match_confidence": confidence}) for each offer
WithMatchConfidence(offers, confidence) ==
    [i \in 1..Len(offers) |-> [offers[i] EXCEPT !.match_confidence = confidence]]

\* line 115-117: the group key of each offer, empty for an offer the loop
\* skips (a key has the separator in it)
GroupKeys(offers) ==
    [i \in 1..Len(offers) |->
        IF offers[i].brand = <<>> \/ offers[i].model = <<>> THEN <<>>
        ELSE GroupKey(offers[i])]

\* line 118: the positions of the offers of the group that the offer at
\* position i opens, in input order
GroupOf(keys, i) == {j \in 1..Len(keys) : keys[j] = keys[i]}

\* groups.values(): the positions of the first offer of each key, which dict
\* order makes the order of the groups
GroupLeaders(keys) ==
    {i \in 1..Len(keys) : keys[i] # <<>> /\ \A j \in 1..(i - 1) : keys[j] # keys[i]}

\* the members of a set of positions, in input order
RECURSIVE Members(_, _)
Members(offers, positions) ==
    IF positions = {} THEN <<>>
    ELSE <<offers[SetMin(positions)]>> \o Members(offers, positions \ {SetMin(positions)})

RECURSIVE SumRelevance(_)
SumRelevance(offers) ==
    IF offers = <<>> THEN 0 ELSE Head(offers).relevance_score + SumRelevance(Tail(offers))

MinGroupSize == 2
MinGroupSellers == 2

\* a group of two offers, whoever sells them
Viable_any_sellers(group) == Len(group) >= MinGroupSize

\* line 122: a viable group
Viable(group) ==
    Len(group) >= MinGroupSize /\ Cardinality(SellersOrDomains(group)) >= MinGroupSellers

\* line 128-132: the sort key of a group; the mean relevance is rounded to
\* 4 places, the unit of relevance_score here
GroupRank(group) ==
    <<Len(group), Cardinality(SellersOrDomains(group)),
      RoundDiv(SumRelevance(group), Max2(Len(group), 1))>>

\* a < b for the key tuples
RankLess(a, b) ==
    \/ a[1] < b[1]
    \/ a[1] = b[1] /\ a[2] < b[2]
    \/ a[1] = b[1] /\ a[2] = b[2] /\ a[3] < b[3]

\* the first viable group in dict order, whatever the keys
SelectedLeader_first(viable, ranks) == SetMin(viable)

\* line 127-135: viable_groups.sort(key=..., reverse=True)[0]. The sort is
\* stable, also with reverse=True, so the first of the groups of greatest
\* key in dict order is selected.  ranks maps the leader of each viable
\* group to the key of the group.
SelectedLeader(viable, ranks) ==
    SetMin({i \in viable : \A j \in viable : ~RankLess(ranks[i], ranks[j])})

ExactModelConfidence == 960
ExactSkuConfidence == 930
RelevanceNudge == 50
ExactConfidenceFloor == 850
ExactConfidenceCeiling == 990

\* line 140-142 in thousandths: with D = 200 * len, the confidence before
\* rounding is ((base - 50) * D + sum) / D for relevance scores summing to
\* sum ten-thousandths
ExactConfidence(match_method, selected) ==
    LET base == IF match_method = "exact_model" THEN ExactModelConfidence
                ELSE ExactSkuConfidence
        scale == (10000 \div RelevanceNudge) * Max2(Len(selected), 1)
        raw == (base - RelevanceNudge) * scale + SumRelevance(selected)
        clamped == Max2(ExactConfidenceFloor * scale, Min2(ExactConfidenceCeiling * scale, raw))
    IN  10 * RoundDiv(clamped, 10 * scale)

ExactPrefix == <<"e", "x", "a", "c", "t">>

\* line 144-154 given brand, model and confidence
ExactClusterOf(selected, brand, model, confidence) ==
    [cluster_id |-> ExactPrefix \o KeySeparator \o normalize_text(brand) \o KeySeparator
                    \o normalize_text(model) \o KeySeparator
                    \o _dominant_value(Variants(selected)),
     brand |-> brand,
     model |-> model,
     variant |-> _dominant_value(Variants(selected)),
     match_method |-> classify_exact_match_method(model),
     confidence |-> confidence,
     offer_count |-> Len(selected),
     domains |-> Domains(selected),
     offers |-> WithMatchConfidence(selected, confidence)]

\* line 136-154 for the selected group
ExactClusterOfGroup(selected, model) ==
    ExactClusterOf(selected, _dominant_value(Brands(selected)), model,
                   ExactConfidence(classify_exact_match_method(model), selected))

\* line 120-123: the leaders of the viable groups
ViableLeaders(offers, keys) ==
    {i \in GroupLeaders(keys) : Viable(Members(offers, GroupOf(keys, i)))}

\* line 128-132 for each viable group
GroupRanks(offers, keys, viable) ==
    [i \in viable |-> GroupRank(Members(offers, GroupOf(keys, i)))]

\* line 135-154 given the selected group
ExactClusterSelected(selected) ==
    ExactClusterOfGroup(selected, _dominant_value(Models(selected)))

\* line 120-154 given the keys and the viable groups
ExactClusterAmong(offers, keys, viable) ==
    IF viable = {} THEN <<>>
    ELSE <<ExactClusterSelected(
             Members(offers, GroupOf(keys, SelectedLeader(viable, GroupRanks(offers, keys, viable)))))>>

\* line 120-154 given the keys
ExactClusterByKey(offers, keys) == ExactClusterAmong(offers, keys, ViableLeaders(offers, keys))

\* ProductMatcherService._exact_cluster: <<>> for None, else <<cluster>>
_exact_cluster(offers) == ExactClusterByKey(offers, GroupKeys(offers))

FuzzyWindow == 6
FuzzyConfidenceFloor == 800
FuzzyConfidenceCeiling == 950
FuzzyPrefix == <<"f", "u", "z", "z", "y">>

\* a warning: one of the fixed texts, or the rationale of the LLM
Warning(text) == [text |-> text, rationale |-> <<>>]
RationaleWarning(rationale) == [text |-> "", rationale |-> rationale]

TooFewOffers == Warning("At least two relevant purchase options are required for exact-match comparison.")
NoExactCluster == Warning("Exact model matching did not find a confident same-product cluster.")
NoFuzzyCluster == Warning("Gemini fuzzy matching did not produce a confident same-product cluster.")
FuzzyChecksFailed == Warning("Gemini returned a cluster that failed deterministic brand or variant checks.")
FuzzyFewSellers == Warning("Gemini returned fewer than two distinct sellers or domains.")
FuzzySelected == Warning("Gemini selected the strongest same-product cluster from the top ranked offers.")

\* what match returns: the cluster (<<>> for None), the offers, the warnings
\* and, beside them, the number of calls of llm.match_same_product it made
MatchResult(cluster, offers, warnings, llm_calls) ==
    [cluster |-> cluster, offers |-> offers, warnings |-> warnings, llm_calls |-> llm_calls]

\* [enriched[index] for index in fuzzy.matched_indexes if 0 <= index < len(enriched[:6])]
RECURSIVE Matched(_, _, _)
Matched(enriched, indexes, k) ==
    IF k > Len(indexes) THEN <<>>
    ELSE (IF 0 <= indexes[k] /\ indexes[k] < Min2(FuzzyWindow, Len(enriched))
          THEN <<enriched[indexes[k] + 1]>> ELSE <<>>)
         \o Matched(enriched, indexes, k + 1)

\* line 98-108 given the dominant brand and model of the matched offers
FuzzyClusterOf(query, updated, brand, model, confidence) ==
    [cluster_id |-> FuzzyPrefix \o KeySeparator \o normalize_text(brand) \o KeySeparator
                    \o normalize_text(OrElse(model, query)),
     brand |-> OrElse(brand, infer_brand(query)),
     model |-> OrElse(model, OrElse(extract_model_identifier(query), Upper(query))),
     variant |-> _dominant_value(Variants(updated)),
     match_method |-> "fuzzy_llm",
     confidence |-> 10 * RoundDiv(confidence, 10),
     offer_count |-> Len(updated),
     domains |-> Domains(updated),
     offers |-> updated]

\* line 96-110
FuzzyAccepted(query, updated, confidence, rationale, warnings) ==
    MatchResult(<<FuzzyClusterOf(query, updated, _dominant_value(Brands(updated)),
                                 _dominant_value(Models(updated)), confidence)>>,
                updated,
                Append(warnings, IF rationale # <<>> THEN RationaleWarning(rationale)
                                 ELSE FuzzySelected),
                1)

\* line 87-110 given the matched offers
FuzzyChecked(query, enriched, fuzzy, matched, warnings) ==
    IF Len(matched) < MinGroupSize THEN MatchResult(<<>>, enriched, warnings, 1)
    ELSE IF ~_same_brand(matched) \/ _variant_conflict(matched)
         THEN MatchResult(<<>>, enriched, Append(warnings, FuzzyChecksFailed), 1)
    ELSE IF Cardinality(SellersOrDomains(matched)) < MinGroupSellers
         THEN MatchResult(<<>>, enriched, Append(warnings, FuzzyFewSellers), 1)
    ELSE FuzzyAccepted(query,
                       WithMatchConfidence(matched,
                           Max2(FuzzyConfidenceFloor, Min2(FuzzyConfidenceCeiling, fuzzy.confidence))),
                       Max2(FuzzyConfidenceFloor, Min2(FuzzyConfidenceCeiling, fuzzy.confidence)),
                       fuzzy.rationale, warnings)

\* line 81-110 given the answer of llm.match_same_product
FuzzyPhase(query, enriched, fuzzy, warnings) ==
    IF ~fuzzy.ok THEN MatchResult(<<>>, enriched, Append(warnings, NoFuzzyCluster), 1)
    ELSE FuzzyChecked(query, enriched, fuzzy, Matched(enriched, fuzzy.matched_indexes, 1),
                      warnings)

\* the LLM asked before the exact cluster is looked at
AfterExact_llm_first(query, enriched, exact_cluster, llm, raw) ==
    IF llm.present /\ enabled(llm)
    THEN FuzzyPhase(query, enriched,
                    match_same_product(llm, Slice(enriched, 1, Min2(FuzzyWindow, Len(enriched))), raw),
                    <<NoExactCluster>>)
    ELSE IF exact_cluster # <<>> THEN MatchResult(exact_cluster, exact_cluster[1].offers, <<>>, 0)
    ELSE MatchResult(<<>>, enriched, <<NoExactCluster>>, 0)

\* line 73-110 given the enriched offers and the exact cluster
AfterExact(query, enriched, exact_cluster, llm, raw) ==
    IF exact_cluster # <<>> THEN MatchResult(exact_cluster, exact_cluster[1].offers, <<>>, 0)
    ELSE IF ~llm.present \/ ~enabled(llm) THEN MatchResult(<<>>, enriched, <<NoExactCluster>>, 0)
    ELSE FuzzyPhase(query, enriched,
                    match_same_product(llm, Slice(enriched, 1, Min2(FuzzyWindow, Len(enriched))), raw),
                    <<NoExactCluster>>)

\* line 72-110 given the enriched offers
MatchEnriched(query, enriched, llm, raw) ==
    AfterExact(query, enriched, _exact_cluster(enriched), llm, raw)

\* ProductMatcherService.match(query, offers) where the call returns. llm is
\* self.llm; raw is what the LLM transport answers if it is asked.
match(query, offers, llm, raw) ==
    IF Len(offers) < MinGroupSize THEN MatchResult(<<>>, offers, <<TooFewOffers>>, 0)
    ELSE MatchEnriched(query, [i \in 1..Len(offers) |-> _enrich_offer(offers[i])], llm, raw)

(***************************************************************************)
(* Instances of match: the offers, LLM clients and LLM answers drawn.      *)
(***************************************************************************)
best_buy == <<"b","e","s","t","-","b","u","y">>
Acme == <<"A","c","m","e">>
sony == <<"s","o","n","y">>
wh_1000xm5 == <<"w","h"," ","1","0","0","0","x","m","5">>
SonyTitle256 == <<"S","o","n","y"," ","W","H","-","1","0","0","0","X","M","5"," ","2","5","6","G","B">>
SonyTitle128 == <<"S","o","n","y"," ","W","H","-","1","0","0","0","X","M","5"," ","1","2","8","g","b">>
Apple == <<"A","p","p","l","e">>
A123456 == <<"A","1","2","3","4","5","6">>
AppleTitle == <<"A","p","p","l","e"," ","A","1","2","3","4","5","6">>
SonyQuery == <<"s","o","n","y"," ","w","h","-","1","0","0","0","x","m","5">>
SameProduct == <<"S","a","m","e"," ","p","r","o","d","u","c","t">>

\* an offer as the matcher reads it
ListedOffer(id, seller, domain, title, brand, model, variant, relevance) ==
    PurchaseOption(id, seller, domain, title, brand, model, variant, 32999, "new", NoText,
                   ExampleUrl, relevance, <<"jsonld">>)

\* The offers match is given: the three Sony offers of test_exact_match_cluster
\* (one with brand and model in another spelling, one whose seller name is
\* the first's in another spelling), an offer whose title names a capacity,
\* an offer that leaves brand, model, variant and seller to be derived (its
\* title names another capacity), an offer that
\* has nothing to derive them from, and two offers of an SKU-like model from
\* two sellers at one domain.
MatchOfferPool ==
    { ListedOffer("1", BestBuy, bestbuy_com, SonyTitle, Sony, WH1000XM5, NoText, 9500),
      ListedOffer("2", MicroCenter, microcenter_com, SonyTitle, sony, wh_1000xm5, NoText, 9200),
      ListedOffer("3", best_buy, amazon_com, SonyTitle, Sony, WH1000XM5, NoText, 9100),
      ListedOffer("4", Walmart, walmart_com, SonyTitle128, Sony, WH1000XM5, NoText, 9000),
      ListedOffer("5", NoText, amazon_com, SonyTitle256, NoText, NoText, NoText, 8800),
      ListedOffer("6", Walmart, walmart_com, NoText, NoText, NoText, NoText, 8000),
      ListedOffer("7", Amazon, amazon_com, AppleTitle, Apple, A123456, NoText, 9400),
      ListedOffer("8", Acme, amazon_com, AppleTitle, Apple, A123456, NoText, 9300) }

\* the longest list of offers drawn from the whole pool
MaxMatchOffers == 3

\* the offers of the two products that have offers from two sellers; lists
\* of them are drawn one offer longer, so that a list can hold a group of
\* each product.  With the Walmart offer the Sony pair of offers 1 and 11 has
\* the mean relevance 0.93505, which rounds to the 0.935 of the Apple pair.
WalmartSonyOffer ==
    ListedOffer("11", Walmart, walmart_com, SonyTitle, Sony, WH1000XM5, NoText, 9201)
TwoProductOffers ==
    {o \in MatchOfferPool : o.offer_id \in {"1", "2", "3", "7", "8"}} \cup {WalmartSonyOffer}

\* two offers more, for a list longer than the six offers the LLM is shown:
\* an offer of another capacity and an offer with nothing to derive a brand from
v64gb == <<"6","4","g","b">>
WindowOffers ==
    { ListedOffer("9", Amazon, amazon_com, SonyTitle, Sony, WH1000XM5, v64gb, 8700),
      ListedOffer("10", MicroCenter, microcenter_com, NoText, NoText, NoText, NoText, 8600) }
OfferOf(id) == CHOOSE o \in MatchOfferPool \cup WindowOffers : o.offer_id = id

\* seven offers without a viable exact group
SevenOffers == [i \in 1..7 |-> OfferOf(<<"1", "4", "5", "6", "7", "9", "10">>[i])]

MatchOfferLists ==
    {<<>>} \cup DistinctSeqs(MatchOfferPool, MaxMatchOffers)
           \cup DistinctSeqs(TwoProductOffers, MaxMatchOffers + 1)
           \cup {SevenOffers}

JsonInt(n) == [int |-> TRUE, n |-> n]
JsonString == [int |-> FALSE, n |-> 0]

\* The answers of the LLM transport to match_same_product: none, a JSON value
\* that is not an object, and objects whose matched_indexes are not a list,
\* a pair, a triple, a repeated index, or a list with a string, an index out
\* of range, a negative index and a repeated index in it, or the first, the
\* sixth and the seventh offer.
RawMatches ==
    { NoJson, NonObjectJson,
      [ok |-> TRUE, object |-> TRUE,
       matched_indexes |-> [iterable |-> TRUE, items |-> <<JsonInt(0), JsonInt(5), JsonInt(6)>>],
       confidence |-> [numeric |-> TRUE, number |-> 850], rationale |-> SameProduct],
      [ok |-> TRUE, object |-> TRUE,
       matched_indexes |-> [iterable |-> FALSE, items |-> <<>>],
       confidence |-> [numeric |-> TRUE, number |-> 900], rationale |-> SameProduct],
      [ok |-> TRUE, object |-> TRUE,
       matched_indexes |-> [iterable |-> TRUE, items |-> <<JsonInt(0), JsonInt(1)>>],
       confidence |-> [numeric |-> TRUE, number |-> 912], rationale |-> SameProduct],
      [ok |-> TRUE, object |-> TRUE,
       matched_indexes |-> [iterable |-> TRUE, items |-> <<JsonInt(0), JsonInt(1)>>],
       confidence |-> [numeric |-> TRUE, number |-> 500], rationale |-> NoText],
      [ok |-> TRUE, object |-> TRUE,
       matched_indexes |-> [iterable |-> TRUE, items |-> <<JsonInt(0), JsonInt(1), JsonInt(2)>>],
       confidence |-> [numeric |-> TRUE, number |-> 1500], rationale |-> SameProduct],
      [ok |-> TRUE, object |-> TRUE,
       matched_indexes |-> [iterable |-> TRUE, items |-> <<JsonInt(0), JsonInt(0)>>],
       confidence |-> [numeric |-> TRUE, number |-> 900], rationale |-> SameProduct],
      [ok |-> TRUE, object |-> TRUE,
       matched_indexes |-> [iterable |-> TRUE,
                            items |-> <<JsonString, JsonInt(1), JsonInt(9), JsonInt(-1),
                                        JsonInt(1), JsonInt(0)>>],
       confidence |-> [numeric |-> FALSE, number |-> 0], rationale |-> Blank] }

InitMatch ==
    /\ op = "match"
    /\ m_query = SonyQuery
    /\ m_offers \in MatchOfferLists
    /\ m_llm = NoLLM
    /\ m_result = <<>>
    /\ m_llm_calls = 0
    /\ m_raw = <<>>
    /\ m_error = ""
    /\ IdleOthers("match")

\* whether match reaches LLMClient._call_json (product_matcher.py line 81,
\* llm_client.py line 111 and 133)
MatchRequested(llm, offers) ==
    /\ llm.present
    /\ enabled(llm)
    /\ llm.provider = "gemini"
    /\ Len(offers) >= MinGroupSize
    /\ _exact_cluster([i \in 1..Len(offers) |-> _enrich_offer(offers[i])]) = <<>>

\* The service keeps nothing from one call of match to the next, so an
\* instance is one call: not yet made while there is neither a result nor an
\* exception.
MatchPending == op = "match" /\ m_result = <<>> /\ m_error = ""

\* ProductMatcherService(llm).match(query, offers) with no request to the LLM
MatchOffline(llm) ==
    /\ MatchPending
    /\ ~MatchRequested(llm, m_offers)
    /\ m_llm' = llm
    /\ m_result' = <<match(m_query, m_offers, llm, NoJson)>>
    /\ m_llm_calls' = m_result'[1].llm_calls
    /\ m_raw' = <<>>
    /\ m_error' = ""
    /\ UNCHANGED <<op, m_query, m_offers, not_m_vars>>

\* ProductMatcherService(llm).match(query, offers), the LLM answering raw
MatchWithLLM(llm) ==
    /\ MatchPending
    /\ MatchRequested(llm, m_offers)
    /\ m_llm' = llm
    /\ m_llm_calls' = 1
    /\ \E raw \in RawMatches :
          /\ m_raw' = <<raw>>
          /\ IF RawGetRaises(raw)
             THEN m_error' = "AttributeError" /\ m_result' = <<>>
             ELSE IF IndexesRaise(raw)
             THEN m_error' = "TypeError" /\ m_result' = <<>>
             ELSE m_error' = "" /\ m_result' = <<match(m_query, m_offers, llm, raw)>>
    /\ UNCHANGED <<op, m_query, m_offers, not_m_vars>>

NextMatch ==
    \/ \E llm \in LLMClients : MatchOffline(llm)
    \/ \E llm \in LLMClients : MatchWithLLM(llm)

SpecMatch == InitMatch /\ [][NextMatch]_vars

(***************************************************************************)
(* Properties of match                                                     *)
(***************************************************************************)
\* the cluster the call of match returned: <<>> while it has not returned,
\* and when it returned None for the cluster
ReturnedCluster == IF m_result = <<>> THEN <<>> ELSE m_result[1].cluster

SellerValues(offers) == {_seller_or_domain(offers[i]) : i \in 1..Len(offers)}
SourceDomains(offers) == {offers[i].source_domain : i \in 1..Len(offers)}
NonEmptyVariants(offers) == {offers[i].variant : i \in 1..Len(offers)} \ {<<>>}

\* C4: every cluster match returns, from the exact phase or from the fuzzy
\* phase, has member offers of at least 2 distinct seller-or-domain values
\* and an offer_count of at least 2; match returns no cluster when it is
\* given fewer than 2 offers.
C4_TwoSellersOrDomains ==
    /\ (m_result # <<>> /\ Len(m_offers) < 2) => m_result[1].cluster = <<>>
    /\ ReturnedCluster # <<>> =>
           /\ ReturnedCluster[1].offer_count >= 2
           /\ Len(ReturnedCluster[1].offers) >= 2
           /\ Cardinality(SellerValues(ReturnedCluster[1].offers)) >= 2

\* C4 witness: a fuzzy cluster of three members, two of them from one seller
\* under two spellings of its name
C4_Witness ==
    /\ ReturnedCluster # <<>>
    /\ ReturnedCluster[1].match_method = "fuzzy_llm"
    /\ ReturnedCluster[1].offer_count = 3
    /\ Cardinality(SellerValues(ReturnedCluster[1].offers)) = 2

\* C5 as stated: every cluster has offer_count equal to the number of its
\* members, at least 2, and members of at least 2 distinct source domains,
\* so that its domains list has at least 2 entries.
C5_TwoSourceDomains ==
    ReturnedCluster # <<>> =>
        /\ ReturnedCluster[1].offer_count = Len(ReturnedCluster[1].offers)
        /\ ReturnedCluster[1].offer_count >= 2
        /\ Cardinality(SourceDomains(ReturnedCluster[1].offers)) >= 2
        /\ Len(ReturnedCluster[1].domains) >= 2

\* C5: every cluster has offer_count equal to the number of its members, at
\* least 2, and members of at least 2 distinct normalized seller-or-domain
\* values (the seller name, the source domain where there is no seller
\* name); its domains list holds the distinct source domains of the members
\* in ascending order and has at least 1 entry.
C5_CountAndDomains ==
    ReturnedCluster # <<>> =>
        LET c == ReturnedCluster[1]
        IN  /\ c.offer_count = Len(c.offers)
            /\ c.offer_count >= 2
            /\ Cardinality(SellerValues(c.offers)) >= 2
            /\ Len(c.domains) >= 1
            /\ {c.domains[i] : i \in 1..Len(c.domains)} = SourceDomains(c.offers)
            /\ \A i \in 1..(Len(c.domains) - 1) : StrLess(c.domains[i], c.domains[i + 1])

\* C5 witness: a cluster of two sellers at one source domain
C5_Witness ==
    /\ ReturnedCluster # <<>>
    /\ Len(ReturnedCluster[1].domains) = 1
    /\ \A i \in 1..Len(ReturnedCluster[1].offers) :
           ReturnedCluster[1].offers[i].seller_name # <<>>
    /\ Cardinality(SellerValues(ReturnedCluster[1].offers)) = 2

\* C6 as stated: all members of a cluster share the same normalized brand,
\* and no two members carry different non-empty variant tokens.
C6_OneBrand ==
    ReturnedCluster # <<>> =>
        /\ \A i, j \in 1..Len(ReturnedCluster[1].offers) :
               normalize_text(ReturnedCluster[1].offers[i].brand)
                   = normalize_text(ReturnedCluster[1].offers[j].brand)
        /\ Cardinality(NonEmptyVariants(ReturnedCluster[1].offers)) <= 1

\* C6: the members of a cluster that have a brand share the same normalized
\* brand, and no two members carry different non-empty variant tokens; every
\* member of a cluster of the exact phase has a brand.
C6_OneBrandWhereGiven ==
    ReturnedCluster # <<>> =>
        LET members == ReturnedCluster[1].offers
        IN  /\ \A i, j \in 1..Len(members) :
                   (members[i].brand # <<>> /\ members[j].brand # <<>>) =>
                       normalize_text(members[i].brand) = normalize_text(members[j].brand)
            /\ Cardinality(NonEmptyVariants(members)) <= 1
            /\ ReturnedCluster[1].match_method # "fuzzy_llm" =>
                   \A i \in 1..Len(members) : members[i].brand # <<>>

\* C6 witness: a fuzzy cluster of a member with a brand and a member with
\* none
C6_Witness ==
    /\ ReturnedCluster # <<>>
    /\ \E i, j \in 1..Len(ReturnedCluster[1].offers) :
           /\ ReturnedCluster[1].offers[i].brand = <<>>
           /\ ReturnedCluster[1].offers[j].brand # <<>>

OfferIds(offers) == [i \in 1..Len(offers) |-> offers[i].offer_id]

\* what C7 concludes but for the match method: one cluster of the exact
\* phase with all the offers given, no warning, the LLM not asked
AllInOneExactCluster ==
    /\ ReturnedCluster # <<>>
    /\ ReturnedCluster[1].match_method \in {"exact_model", "exact_sku"}
    /\ ReturnedCluster[1].offer_count = Len(m_offers)
    /\ OfferIds(ReturnedCluster[1].offers) = OfferIds(m_offers)
    /\ OfferIds(m_result[1].offers) = OfferIds(m_offers)
    /\ m_result[1].warnings = <<>>
    /\ m_llm_calls = 0

\* n >= 2 offers of one normalized brand and model, both non-empty, from at
\* least 2 sellers or domains
SameBrandAndModel(offers) ==
    /\ Len(offers) >= 2
    /\ \A i \in 1..Len(offers) :
           /\ offers[i].brand # <<>>
           /\ offers[i].model # <<>>
           /\ normalize_text(offers[i].brand) = normalize_text(offers[1].brand)
           /\ normalize_text(offers[i].model) = normalize_text(offers[1].model)
    /\ Cardinality(SellerValues(offers)) >= 2

\* C7 as stated: given n >= 2 offers that carry the same normalized brand,
\* model and variant and come from at least 2 distinct sellers or domains,
\* match returns one cluster of the exact phase with all n offers, the match
\* method exact_model if the model code has a letter in it, no warnings, and
\* does not consult the LLM.
C7_LetterMeansExactModel ==
    (/\ m_result # <<>>
     /\ SameBrandAndModel(m_offers)
     /\ \A i \in 1..Len(m_offers) :
            normalize_text(m_offers[i].variant) = normalize_text(m_offers[1].variant))
    => /\ AllInOneExactCluster
       /\ HasLetter(m_offers[1].model) => ReturnedCluster[1].match_method = "exact_model"

\* the number of positions of s that hold a character of S
CountIn(s, S) == Cardinality({i \in 1..Len(s) : s[i] \in S})

\* a model code that is all digits, or SKU-like: at least 6 characters, all
\* of them letters, digits or "-", at most 2 letters and at least twice as
\* many digits as letters
SkuLike(model) ==
    \/ CountIn(model, DigitSet) > 0 /\ CountIn(model, LetterSet) = 0
    \/ /\ Len(model) >= 6
       /\ CountIn(model, LetterSet \cup DigitSet \cup {"-"}) = Len(model)
       /\ CountIn(model, LetterSet) <= 2
       /\ CountIn(model, DigitSet) >= 2 * CountIn(model, LetterSet)

\* brand, model and variant as match compares them: the offer's own where it
\* has one, else what its title yields
Compared(offers) == [i \in 1..Len(offers) |-> _enrich_offer(offers[i])]

\* C7: given n >= 2 offers whose brand and model (the offer's own, else the
\* one inferred from its title) are non-empty and the same after
\* normalization, whose variant (the offer's own, else the capacity token of
\* title and model) is the same string, and that have at least 2 distinct
\* normalized seller-or-domain values, match returns one cluster of the exact
\* phase with all n offers, no warnings, and does not consult the LLM; the
\* match method is exact_sku if the cluster's model is all digits or
\* SKU-like, and exact_model otherwise.
C7_SameProductAllInOne ==
    m_result # <<>> =>
        LET compared == Compared(m_offers)
        IN  (/\ SameBrandAndModel(compared)
             /\ \A i \in 1..Len(compared) : compared[i].variant = compared[1].variant)
            => /\ AllInOneExactCluster
               /\ ReturnedCluster[1].match_method = "exact_sku"
                      <=> SkuLike(ReturnedCluster[1].model)
               /\ \E i \in 1..Len(compared) : ReturnedCluster[1].model = compared[i].model

\* C7 witness: three offers of one product, brand and model spelled in two
\* ways, in one exact_model cluster
C7_Witness ==
    /\ ReturnedCluster # <<>>
    /\ Len(m_offers) = 3
    /\ ReturnedCluster[1].offer_count = 3
    /\ ReturnedCluster[1].match_method = "exact_model"
    /\ \E i, j \in 1..3 : m_offers[i].brand # m_offers[j].brand
    /\ m_result[1].warnings = <<>>

InferredNotes(given, returned) ==
    (IF given.brand = <<>> /\ returned.brand # <<>> THEN <<"brand-inferred">> ELSE <<>>)
    \o (IF given.model = <<>> /\ returned.model # <<>> THEN <<"model-inferred">> ELSE <<>>)
    \o (IF given.variant = <<>> /\ returned.variant # <<>> THEN <<"variant-inferred">> ELSE <<>>)

\* returned is given but for brand, model and variant filled in where given
\* has none, and for the notes that say so
FilledIn(given, returned) ==
    /\ returned = [given EXCEPT !.brand = returned.brand, !.model = returned.model,
                                !.variant = returned.variant,
                                !.parse_notes = returned.parse_notes]
    /\ given.brand # <<>> => returned.brand = given.brand
    /\ given.model # <<>> => returned.model = given.model
    /\ given.variant # <<>> => returned.variant = given.variant
    /\ returned.parse_notes = given.parse_notes \o InferredNotes(given, returned)

HasViableExactGroup(offers) ==
    \E i, j \in 1..Len(offers) :
        /\ i < j
        /\ offers[i].brand # <<>> /\ offers[i].model # <<>>
        /\ offers[j].brand # <<>> /\ offers[j].model # <<>>
        /\ normalize_text(offers[i].brand) = normalize_text(offers[j].brand)
        /\ normalize_text(offers[i].model) = normalize_text(offers[j].model)
        /\ offers[i].variant = offers[j].variant
        /\ _seller_or_domain(offers[i]) # _seller_or_domain(offers[j])

MatchEnded == op = "match" /\ (m_result # <<>> \/ m_error # "")

\* C20: one call of match invokes llm.match_same_product at most once, and
\* then only when the offers (at least 2, after enrichment) hold no viable
\* exact group and an LLM client is present and enabled; when they hold a
\* viable exact group the call returns an exact_model or exact_sku cluster
\* and does not invoke the LLM.
C20_LlmOnlyAfterExact ==
    MatchEnded =>
        LET viable == Len(m_offers) >= 2 /\ HasViableExactGroup(Compared(m_offers))
        IN  /\ m_llm_calls \in {0, 1}
            /\ m_llm_calls = 1 => ~viable /\ Len(m_offers) >= 2 /\ m_llm.present /\ enabled(m_llm)
            /\ viable => /\ m_error = ""
                          /\ ReturnedCluster # <<>>
                          /\ ReturnedCluster[1].match_method \in {"exact_model", "exact_sku"}
                          /\ m_llm_calls = 0

\* the LLM was asked once and its answer became a fuzzy cluster
C20_Witness ==
    /\ MatchEnded
    /\ m_llm_calls = 1
    /\ ReturnedCluster # <<>>
    /\ ReturnedCluster[1].match_method = "fuzzy_llm"



(***************************************************************************)
(* app/services/relevance_ranker.py                                        *)
(***************************************************************************)
ACCESSORY_KEYWORDS ==
    { <<"c","a","s","e">>, <<"c","o","v","e","r">>, <<"c","a","b","l","e">>,
      <<"c","h","a","r","g","e","r">>, <<"d","o","c","k">>,
      <<"a","d","a","p","t","e","r">>,
      <<"r","e","p","l","a","c","e","m","e","n","t">>,
      <<"p","r","o","t","e","c","t","o","r">>, <<"s","k","i","n">>,
      <<"s","l","e","e","v","e">>, <<"s","t","a","n","d">>,
      <<"m","o","u","n","t">>, <<"b","a","t","t","e","r","y">>,
      <<"e","a","r","p","a","d">>, <<"e","a","r"," ","p","a","d">> }

USED_CONDITIONS == {"used", "refurbished", "open_box"}

\* line 86: the tokens of a search, category, forum or review page
SEARCH_OR_REVIEW_TOKENS ==
    { <<"/","s","e","a","r","c","h">>, <<"s","e","a","r","c","h","?">>,
      <<"?","k","=">>, <<"?","s","=">>, <<"c","a","t","e","g","o","r","y">>,
      <<"f","o","r","u","m">>, <<"r","e","v","i","e","w">> }

\* line 115 given query_text and title
AccessoryKeywordIn(query_text, title) ==
    \E keyword \in ACCESSORY_KEYWORDS : Contains(title, keyword) /\ ~Contains(query_text, keyword)

\* RelevanceRanker._looks_like_accessory
_looks_like_accessory(query, offer) ==
    AccessoryKeywordIn(normalize_text(query), normalize_text(offer.title))

\* line 86 given the corpus
SearchOrReviewIn(corpus) == \E token \in SEARCH_OR_REVIEW_TOKENS : Contains(corpus, token)

\* the reasons but for the condition
reject_reason_any_condition(query, offer) ==
    IF offer.price <= 0 THEN <<"missing-price">>
    ELSE IF SearchOrReviewIn(Lower(offer.title \o <<" ">> \o offer.url \o <<" ">> \o offer.promo_text))
         THEN <<"search-or-review-page">>
    ELSE IF _looks_like_accessory(query, offer) THEN <<"accessory">>
    ELSE <<>>

\* RelevanceRanker.reject_reason: <<>> for None, else <<reason>>
reject_reason(query, offer) ==
    IF offer.condition \in USED_CONDITIONS THEN <<offer.condition>>
    ELSE IF offer.price <= 0 THEN <<"missing-price">>
    ELSE IF SearchOrReviewIn(Lower(offer.title \o <<" ">> \o offer.url \o <<" ">> \o offer.promo_text))
         THEN <<"search-or-review-page">>
    ELSE IF _looks_like_accessory(query, offer) THEN <<"accessory">>
    ELSE <<>>

TokenMinLen == 3

\* re.sub(r"[^a-z0-9]+", "", chunk.lower())
TokenOf(chunk) ==
    LET kept(c) == c \in LowerSet \/ c \in DigitSet
    IN  SelectSeq(Lower(chunk), kept)

\* line 127-131 given value.split()
TokensOf(chunks) ==
    {token \in {TokenOf(chunks[i]) : i \in 1..Len(chunks)} :
        token # <<>> /\ (Len(token) >= TokenMinLen \/ HasDigit(token))}

\* RelevanceRanker._tokens
_tokens(value) == TokensOf(Split(value))

\* line 97-98 given the two sets of tokens: hits and what they are divided by
OverlapOf(query_tokens, haystack) ==
    [hits |-> Cardinality(query_tokens \cap haystack),
     of |-> Max2(Cardinality(query_tokens), 1)]

\* RelevanceRanker._query_overlap as the fraction hits / of
_query_overlap(query, offer) ==
    OverlapOf(_tokens(query),
              _tokens(offer.title \o <<" ">> \o offer.brand \o <<" ">> \o offer.model
                      \o <<" ">> \o offer.variant \o <<" ">> \o offer.source_domain))

JsonLdProductPageConfidence == 1000
ProductPageConfidence == 800
JsonLdConfidence == 600
DefaultDomainConfidence == 200

\* RelevanceRanker._domain_confidence in ten-thousandths
_domain_confidence(offer) ==
    LET notes == {offer.parse_notes[i] : i \in 1..Len(offer.parse_notes)}
    IN  IF "jsonld" \in notes /\ "product-page" \in notes THEN JsonLdProductPageConfidence
        ELSE IF "product-page" \in notes THEN ProductPageConfidence
        ELSE IF "jsonld" \in notes THEN JsonLdConfidence
        ELSE DefaultDomainConfidence

FamilySeparators == {"-", "/", " "}

\* re.split(r"[-/ ]", model.upper())[0]
FamilyOf(model) ==
    LET cuts == {i \in 1..Len(model) : model[i] \in FamilySeparators}
    IN  Upper(IF cuts = {} THEN model ELSE Slice(model, 1, SetMin(cuts) - 1))

\* RelevanceRanker._wrong_model_family
_wrong_model_family(query_model, offer_model) ==
    /\ query_model # <<>>
    /\ offer_model # <<>>
    /\ FamilyOf(query_model) # <<>>
    /\ FamilyOf(offer_model) # <<>>
    /\ FamilyOf(query_model) # FamilyOf(offer_model)

ModelWeight == 4500
BrandWeight == 2000
VariantWeight == 1500
VariantPenalty == 2500
AnyVariantWeight == 500
OverlapWeight == 1000
FamilyPenalty == 3500
AccessoryPenalty == 4000
ScoreMax == 10000

\* line 40-58 but for the overlap, in ten-thousandths
ScoreTerms(query, offer, query_brand, query_model, query_variant) ==
    (IF query_model # <<>> /\ offer.model # <<>>
        /\ normalize_text(query_model) = normalize_text(offer.model)
     THEN ModelWeight ELSE 0)
    + (IF query_brand # <<>> /\ offer.brand # <<>>
          /\ normalize_text(query_brand) = normalize_text(offer.brand)
       THEN BrandWeight ELSE 0)
    + (IF query_variant # <<>>
       THEN (IF offer.variant = <<>> THEN 0
             ELSE IF query_variant = offer.variant THEN VariantWeight
             ELSE -VariantPenalty)
       ELSE IF offer.variant # <<>> THEN AnyVariantWeight ELSE 0)
    + _domain_confidence(offer)
    - (IF _wrong_model_family(query_model, offer.model) THEN FamilyPenalty ELSE 0)
    - (IF _looks_like_accessory(query, offer) THEN AccessoryPenalty ELSE 0)

\* line 53 and 60: max(0.0, min(1.0, round(score, 4))) of terms + overlap * 0.10
ScoreRounded(terms, overlap) ==
    IF terms * overlap.of + OverlapWeight * overlap.hits <= 0 THEN 0
    ELSE Min2(ScoreMax, RoundDiv(terms * overlap.of + OverlapWeight * overlap.hits, overlap.of))

\* line 35-60
ScoreAccepted(query, offer) ==
    ScoreRounded(ScoreTerms(query, offer, infer_brand(query), extract_model_identifier(query),
                            extract_variant_token(query)),
                 _query_overlap(query, offer))

\* RelevanceRanker.score in ten-thousandths
score(query, offer) ==
    IF reject_reason(query, offer) # <<>> THEN 0 ELSE ScoreAccepted(query, offer)

KeepThreshold == 5500
HighRelevance == 8000

\* line 66-70: the copy of a rejected offer
RejectedCopy(offer, rejection) ==
    [offer EXCEPT !.parse_notes = Append(@, "rejected:" \o rejection), !.relevance_score = 0]

\* line 71-75: the copy of a scored offer
ScoredCopy(offer, offer_score) ==
    [offer EXCEPT !.relevance_score = offer_score,
                  !.parse_notes = IF offer_score >= HighRelevance
                                  THEN Append(@, "high-relevance") ELSE @]

\* line 65-75 for one offer
RankedCopy(query, offer, rejection) ==
    IF rejection # <<>> THEN RejectedCopy(offer, rejection[1])
    ELSE ScoredCopy(offer, score(query, offer))

\* the sort key of the score alone
KeyLess_by_score(a, b) == a.relevance_score > b.relevance_score

\* line 77: the sort key of a sorts before the sort key of b
KeyLess(a, b) ==
    \/ a.relevance_score > b.relevance_score
    \/ a.relevance_score = b.relevance_score /\ a.price < b.price
    \/ /\ a.relevance_score = b.relevance_score
       /\ a.price = b.price
       /\ StrLess(a.source_domain, b.source_domain)

\* list.sort is stable: an offer goes before the first one that its key
\* sorts before
InsertByKey(sorted, offer) ==
    LET later == {i \in 1..Len(sorted) : KeyLess(offer, sorted[i])}
        at == IF later = {} THEN Len(sorted) + 1 ELSE SetMin(later)
    IN  Slice(sorted, 1, at - 1) \o <<offer>> \o Slice(sorted, at, Len(sorted))

\* line 76-78 given ranked
RECURSIVE KeptSorted(_, _)
KeptSorted(ranked, sorted) ==
    IF ranked = <<>> THEN sorted
    ELSE KeptSorted(Tail(ranked),
                    IF Head(ranked).relevance_score >= KeepThreshold
                    THEN InsertByKey(sorted, Head(ranked)) ELSE sorted)

\* RelevanceRanker.rank
rank(query, offers) ==
    KeptSorted([i \in 1..Len(offers) |->
                   RankedCopy(query, offers[i], reject_reason(query, offers[i]))], <<>>)


(***************************************************************************)
(* Instances of the ranker: the queries and offers drawn.                  *)
(***************************************************************************)
AccessoryShop == <<"A","c","c","e","s","s","o","r","y"," ","S","h","o","p">>
accessoryshop_com == <<"a","c","c","e","s","s","o","r","y","s","h","o","p",".","c","o","m">>
UsedGear == <<"U","s","e","d"," ","G","e","a","r">>
usedgear_com == <<"u","s","e","d","g","e","a","r",".","c","o","m">>
EarPadsTitle == <<"S","o","n","y"," ","W","H","-","1","0","0","0","X","M","5"," ","E","a","r"," ","P","a","d","s">>
Headphones == <<"H","e","a","d","p","h","o","n","e","s">>
WH_1000XM5 == <<"W","H"," ","1","0","0","0","X","M","5">>
XM_5 == <<"X","M","-","5">>
v128gb == <<"1","2","8","g","b">>
v256gb == <<"2","5","6","g","b">>
SearchUrl == <<"h","t","t","p","s",":","/","/","e","x","a","m","p","l","e",".","c","o","m","/","s","e","a","r","c","h","?","k","=","1">>
SonyQuery128 == <<"s","o","n","y"," ","w","h","-","1","0","0","0","x","m","5"," ","1","2","8","g","b">>
EarPadsQuery == <<"s","o","n","y"," ","w","h","-","1","0","0","0","x","m","5"," ","e","a","r"," ","p","a","d","s">>

JsonLd == <<"jsonld">>
ProductPage == <<"product-page">>
JsonLdProductPage == <<"jsonld", "product-page">>

\* an offer as the ranker is given it: not yet scored
FoundOffer(id, seller, domain, title, brand, model, variant, price, condition, url, notes) ==
    PurchaseOption(id, seller, domain, title, brand, model, variant, price, condition, NoText,
                   url, 0, notes)

\* The offers rank is given: the three of
\* test_relevance_ranker_rejects_used_and_accessories (a product page, an
\* accessory, a used one), a search page, two offers that score as the first
\* (one cheaper, one at the same price from another domain), an offer that
\* scores 0.55, offers of two variants, an offer of another model family, an
\* open-box and a refurbished offer.
RankOfferPool ==
    { FoundOffer("1", BestBuy, bestbuy_com, SonyTitle, Sony, WH1000XM5, NoText, 34999, "new",
                 ExampleUrl, JsonLdProductPage),
      FoundOffer("2", AccessoryShop, accessoryshop_com, EarPadsTitle, Sony, WH1000XM5, NoText,
                 1999, "new", ExampleUrl, ProductPage),
      FoundOffer("3", UsedGear, usedgear_com, SonyTitle, Sony, WH1000XM5, NoText, 19999, "used",
                 ExampleUrl, ProductPage),
      FoundOffer("4", Amazon, amazon_com, SonyTitle, Sony, WH1000XM5, NoText, 33999, "new",
                 SearchUrl, JsonLd),
      FoundOffer("5", MicroCenter, microcenter_com, SonyTitle, Sony, WH1000XM5, NoText, 32999,
                 "new", ExampleUrl, JsonLdProductPage),
      FoundOffer("6", Amazon, amazon_com, SonyTitle, Sony, WH1000XM5, NoText, 34999, "unknown",
                 ExampleUrl, JsonLdProductPage),
      FoundOffer("7", Walmart, walmart_com, Headphones, NoText, WH_1000XM5, NoText, 29999, "new",
                 ExampleUrl, JsonLdProductPage),
      FoundOffer("8", Walmart, walmart_com, SonyTitle128, Sony, WH1000XM5, v128gb, 30999, "new",
                 ExampleUrl, ProductPage),
      FoundOffer("9", Amazon, amazon_com, SonyTitle256, Sony, WH1000XM5, v256gb, 31999, "new",
                 ExampleUrl, ProductPage),
      FoundOffer("10", Acme, amazon_com, Headphones, NoText, XM_5, NoText, 9999, "new",
                 ExampleUrl, <<>>),
      FoundOffer("11", BestBuy, bestbuy_com, SonyTitle, Sony, WH1000XM5, NoText, 29999,
                 "open_box", ExampleUrl, JsonLdProductPage),
      FoundOffer("12", Walmart, walmart_com, SonyTitle, Sony, WH_1000XM5, NoText, 34999,
                 "refurbished", ExampleUrl, JsonLdProductPage) }

RankQueries == {SonyQuery, SonyQuery128, EarPadsQuery}

\* the longest list of offers drawn from the whole pool
MaxRankOffers == 2

\* offers that rank keeps for every query, and a used one; lists of them are
\* drawn one offer longer, so that the sort has ties in score and in price
\* to break
TiedOffers == {o \in RankOfferPool : o.offer_id \in {"1", "3", "5", "6", "7", "8"}}

RankOfferLists ==
    {<<>>} \cup DistinctSeqs(RankOfferPool, MaxRankOffers)
           \cup DistinctSeqs(TiedOffers, MaxRankOffers + 1)

InitRank ==
    /\ op = "rank"
    /\ r_query \in RankQueries
    /\ r_offers \in RankOfferLists
    /\ r_result = <<>>
    /\ IdleOthers("rank")

\* The ranker keeps nothing from one call to the next, so an instance is one
\* call of one of its methods: not yet made while there is no result.
RankPending == op = "rank" /\ r_result = <<>>

\* RelevanceRanker().rank(query, offers)
Rank ==
    /\ RankPending
    /\ r_result' = <<[method |-> "rank", offers |-> rank(r_query, r_offers)]>>
    /\ UNCHANGED <<op, r_query, r_offers, not_r_vars>>

\* RelevanceRanker().score(query, offers[i])
Score(i) ==
    /\ RankPending
    /\ r_result' = <<[method |-> "score", offer |-> i, score |-> score(r_query, r_offers[i])]>>
    /\ UNCHANGED <<op, r_query, r_offers, not_r_vars>>

\* RelevanceRanker().reject_reason(query, offers[i])
RejectReason(i) ==
    /\ RankPending
    /\ r_result' = <<[method |-> "reject_reason", offer |-> i,
                      reason |-> reject_reason(r_query, r_offers[i])]>>
    /\ UNCHANGED <<op, r_query, r_offers, not_r_vars>>

NextRank ==
    \/ Rank
    \/ \E i \in 1..Len(r_offers) : Score(i)
    \/ \E i \in 1..Len(r_offers) : RejectReason(i)

SpecRank == InitRank /\ [][NextRank]_vars


(***************************************************************************)
(* Properties of the ranker                                                *)
(***************************************************************************)
HasMarker(text) == \E token \in SEARCH_OR_REVIEW_TOKENS : Contains(text, token)
HasKeywordNotIn(title, query_text) ==
    \E keyword \in ACCESSORY_KEYWORDS : Contains(title, keyword) /\ ~Contains(query_text, keyword)

\* what the claims count as a reason to reject an offer: a used, refurbished
\* or open-box condition, a price that is not positive, a search-or-review
\* marker in title, url or promo text, an accessory keyword in the title
\* that the query does not have (texts compared as the ranker normalizes
\* them)
Rejectable(query, offer) ==
    \/ offer.condition \in {"used", "refurbished", "open_box"}
    \/ offer.price <= 0
    \/ HasMarker(Lower(offer.title))
    \/ HasMarker(Lower(offer.url))
    \/ HasMarker(Lower(offer.promo_text))
    \/ HasKeywordNotIn(normalize_text(offer.title), normalize_text(query))

Returned(method) == r_result # <<>> /\ r_result[1].method = method

\* C9: rank returns no offer that has a reason to be rejected (a used,
\* refurbished or open_box condition, a price <= 0, a search-or-review marker
\* in title, url or promo text, an accessory keyword in the title that the
\* query lacks); score is 0 for every such offer, and the reason
\* reject_reason gives for a used, refurbished or open_box offer is its
\* condition.
C9_RejectedNeverRanked ==
    /\ Returned("rank") =>
           /\ \A k \in 1..Len(r_result[1].offers) : ~Rejectable(r_query, r_result[1].offers[k])
           /\ \A i \in 1..Len(r_offers) :
                  Rejectable(r_query, r_offers[i]) =>
                      \A k \in 1..Len(r_result[1].offers) :
                          r_result[1].offers[k].offer_id # r_offers[i].offer_id
    /\ Returned("score") =>
           (Rejectable(r_query, r_offers[r_result[1].offer]) => r_result[1].score = 0)
    /\ Returned("reject_reason") =>
           /\ r_result[1].reason # <<>> <=> Rejectable(r_query, r_offers[r_result[1].offer])
           /\ r_offers[r_result[1].offer].condition \in {"used", "refurbished", "open_box"} =>
                  r_result[1].reason = <<r_offers[r_result[1].offer].condition>>

\* C9 witness: rank given a used offer and an accessory, or either with an
\* offer it keeps, returns one offer
C9_Witness ==
    /\ Returned("rank")
    /\ Len(r_offers) = 2
    /\ \E i \in 1..Len(r_offers) : Rejectable(r_query, r_offers[i])
    /\ Len(r_result[1].offers) = 1

\* the offer rank returns for the offer given, which it scores offer_score:
\* the score and, for a score of at least 0.80, a note added
ScoredAs(given, offer_score, returned) ==
    /\ returned.offer_id = given.offer_id
    /\ returned.relevance_score = offer_score
    /\ returned = [given EXCEPT !.relevance_score = offer_score,
                                !.parse_notes = returned.parse_notes]
    /\ returned.parse_notes \in {given.parse_notes, Append(given.parse_notes, "high-relevance")}

\* a is in its place before b: by score descending, then price ascending,
\* then source domain ascending
InOrder(a, b) ==
    \/ a.relevance_score > b.relevance_score
    \/ a.relevance_score = b.relevance_score /\ a.price < b.price
    \/ /\ a.relevance_score = b.relevance_score
       /\ a.price = b.price
       /\ (a.source_domain = b.source_domain \/ StrLess(a.source_domain, b.source_domain))

\* C10: the list rank returns holds exactly the offers given whose score is
\* at least 0.55, each with its score, in [0, 1], as relevance_score, ordered
\* by score descending, then price ascending, then source domain ascending.
C10_KeptInOrder ==
    Returned("rank") =>
        LET out == r_result[1].offers
            scores == [i \in 1..Len(r_offers) |-> score(r_query, r_offers[i])]
            kept == {i \in 1..Len(r_offers) : scores[i] >= 5500}
        IN  /\ Len(out) = Cardinality(kept)
            /\ \A i \in kept : \E k \in 1..Len(out) : ScoredAs(r_offers[i], scores[i], out[k])
            /\ \A k \in 1..Len(out) :
                   /\ out[k].relevance_score >= 5500
                   /\ out[k].relevance_score <= 10000
            /\ \A k \in 1..(Len(out) - 1) : InOrder(out[k], out[k + 1])

\* C10 witness: of three offers rank drops one and returns two of one score
\* and one price, the one given first in second place
C10_Witness ==
    /\ Returned("rank")
    /\ Len(r_offers) = 3
    /\ Len(r_result[1].offers) = 2
    /\ r_result[1].offers[1].relevance_score = r_result[1].offers[2].relevance_score
    /\ r_result[1].offers[1].price = r_result[1].offers[2].price
    /\ \E i, j \in 1..3 :
           /\ i < j
           /\ r_offers[i].offer_id = r_result[1].offers[2].offer_id
           /\ r_offers[j].offer_id = r_result[1].offers[1].offer_id


(***************************************************************************)
(* app/policy.py: StrategyPolicy.detect.  A promo score is an int; the     *)
(* median of an even number of them can end in .5 and promo_multiplier is  *)
(* a float, so the median is held doubled, the multiplier in tenths and    *)
(* the threshold in twentieths.                                            *)
(***************************************************************************)
\* sorted(values) for ints
RECURSIVE InsertInt(_, _)
InsertInt(sorted, x) ==
    IF sorted = <<>> THEN <<x>>
    ELSE IF x < Head(sorted) THEN <<x>> \o sorted
    ELSE <<Head(sorted)>> \o InsertInt(Tail(sorted), x)
RECURSIVE SortInts(_)
SortInts(s) ==
    IF s = <<>> THEN <<>>
    ELSE InsertInt(SortInts(SubSeq(s, 1, Len(s) - 1)), s[Len(s)])

\* twice statistics.median(values), values not empty
MedianDoubled(values) ==
    LET data == SortInts(values)
        n == Len(data)
    IN  IF n % 2 = 1 THEN 2 * data[(n \div 2) + 1]
        ELSE data[n \div 2] + data[(n \div 2) + 1]

\* line 28: the promo scores of the history entries that have one
RECURSIVE PromoValues(_)
PromoValues(history) ==
    IF history = <<>> THEN <<>>
    ELSE (IF Head(history).promo_score # <<>> THEN Head(history).promo_score ELSE <<>>)
         \o PromoValues(Tail(history))

DefaultPromoBaseline == 1
MinPromoThreshold == 2

\* line 29: twice the promo baseline
PromoBaselineDoubled(promo_values) ==
    IF promo_values # <<>> THEN MedianDoubled(promo_values) ELSE 2 * DefaultPromoBaseline

\* line 30: the promo threshold, in twentieths
PromoThreshold(policy, history) ==
    Max2(20 * MinPromoThreshold,
         PromoBaselineDoubled(PromoValues(history)) * policy.promo_multiplier)

\* the promo score counts whatever the history's scores are
PromoSpike_fixed_threshold(policy, snapshot, history) ==
    snapshot.promo_score >= MinPromoThreshold

\* line 31
PromoSpike(policy, snapshot, history) ==
    20 * snapshot.promo_score >= PromoThreshold(policy, history)

\* line 25-26
SustainedUndercut(snapshot, history) ==
    snapshot.undercut /\ history # <<>> /\ history[1].undercut

CombinedConfidence == 800
SingleConfidence == 650

\* the rationale: which text, and the numbers formatted into it (the
\* threshold with one decimal, in tenths)
Rationale(template, policy, snapshot, history) ==
    [template |-> template,
     promo_score |-> IF template = "undercut" THEN 0 ELSE snapshot.promo_score,
     promo_threshold |-> IF template = "undercut" THEN 0
                         ELSE RoundDiv(PromoThreshold(policy, history), 2),
     undercut_percent |-> IF template = "undercut" THEN policy.undercut_threshold ELSE 0]

DetectionResult(signal_type, severity, base_confidence, rationale, sustained_undercut, promo_spike) ==
    [signal_type |-> signal_type, severity |-> severity, base_confidence |-> base_confidence,
     rationale |-> rationale, sustained_undercut |-> sustained_undercut,
     promo_spike |-> promo_spike]

\* line 33-70 given the two findings: <<>> for None
Detected(policy, snapshot, history, sustained_undercut, promo_spike) ==
    IF ~sustained_undercut /\ ~promo_spike THEN <<>>
    ELSE IF sustained_undercut /\ promo_spike
    THEN <<DetectionResult("combined", "high", CombinedConfidence,
                           Rationale("combined", policy, snapshot, history), TRUE, TRUE)>>
    ELSE IF sustained_undercut
    THEN <<DetectionResult("undercut", "medium", SingleConfidence,
                           Rationale("undercut", policy, snapshot, history), TRUE, FALSE)>>
    ELSE <<DetectionResult("promo_intensity", "medium", SingleConfidence,
                           Rationale("promo_intensity", policy, snapshot, history), FALSE, TRUE)>>

\* StrategyPolicy.detect
detect(policy, snapshot, history) ==
    Detected(policy, snapshot, history, SustainedUndercut(snapshot, history),
             PromoSpike(policy, snapshot, history))

(***************************************************************************)
(* Instances of detect.                                                    *)
(***************************************************************************)
MaxPromoScore == 4
MaxHistory == 2
DefaultUndercutPercent == 5
DefaultPromoMultiplier == 20
OtherPromoMultiplier == 15

\* StrategyPolicy() and StrategyPolicy(promo_multiplier=1.5)
Policies ==
    {[undercut_threshold |-> DefaultUndercutPercent, promo_multiplier |-> k] :
        k \in {DefaultPromoMultiplier, OtherPromoMultiplier}}

\* build_snapshot(undercut, promo_score): detect reads these two fields
Snapshots == [undercut : BOOLEAN, promo_score : 0..MaxPromoScore]

\* a history entry, as get_recent_snapshots returns it; one entry carries no
\* promo score
HistoryEntries ==
    [undercut : BOOLEAN, promo_score : {<<k>> : k \in 0..(MaxPromoScore - 1)}]
    \cup {[undercut |-> TRUE, promo_score |-> <<>>]}

RECURSIVE SeqsUpTo(_, _)
SeqsUpTo(S, n) ==
    IF n = 0 THEN {<<>>}
    ELSE LET shorter == SeqsUpTo(S, n - 1)
         IN  shorter \cup {Append(s, x) : s \in shorter, x \in S}

Histories == SeqsUpTo(HistoryEntries, MaxHistory)

InitDetect ==
    /\ op = "detect"
    /\ p_policy \in {<<policy>> : policy \in Policies}
    /\ p_snapshot \in {<<snapshot>> : snapshot \in Snapshots}
    /\ p_history \in Histories
    /\ p_result = <<>>
    /\ IdleOthers("detect")

\* StrategyPolicy keeps nothing from one call to the next: an instance is one call
DetectPending == op = "detect" /\ p_result = <<>>

Detect ==
    /\ DetectPending
    /\ p_result' = <<[returned |-> detect(p_policy[1], p_snapshot[1], p_history)]>>
    /\ UNCHANGED <<op, p_policy, p_snapshot, p_history, not_p_vars>>

NextDetect == Detect

SpecDetect == InitDetect /\ [][NextDetect]_vars

(***************************************************************************)
(* Claims about StrategyPolicy.detect                                      *)
(***************************************************************************)
DetectReturned == op = "detect" /\ p_result # <<>>

\* whether the current snapshot and the most recent history entry both undercut
BothUndercut == p_snapshot[1].undercut /\ p_history # <<>> /\ p_history[1].undercut

\* the history's promo scores, as a bag of <<position, score>>
ScoredEntries == {i \in 1..Len(p_history) : p_history[i].promo_score # <<>>}

\* the k-th smallest of the history's promo scores: fewer than k scores lie
\* below it and at least k at or below it
KthScore(k) ==
    CHOOSE v \in 0..MaxPromoScore :
        /\ Cardinality({i \in ScoredEntries : p_history[i].promo_score[1] < v}) < k
        /\ Cardinality({i \in ScoredEntries : p_history[i].promo_score[1] <= v}) >= k

\* twice the median of the history's promo scores, twice 1 when there is none
MedianOfScoresDoubled ==
    LET n == Cardinality(ScoredEntries)
    IN  IF n = 0 THEN 2
        ELSE IF n % 2 = 1 THEN 2 * KthScore((n + 1) \div 2)
        ELSE KthScore(n \div 2) + KthScore((n \div 2) + 1)

\* promo_score >= max(2, promo_multiplier x median of the history's promo
\* scores), the median taken as 1 when the history holds no promo score
PromoAtThreshold ==
    /\ p_snapshot[1].promo_score >= 2
    /\ 20 * p_snapshot[1].promo_score >= MedianOfScoresDoubled * p_policy[1].promo_multiplier

\* C19: detect returns None exactly when there is neither a sustained
\* undercut (the snapshot undercuts and so does the most recent history
\* entry) nor a promo spike (promo_score >= max(2, promo_multiplier x median
\* of the history's promo scores, 1 taken for the median when there is
\* none)); it returns 'combined' with severity 'high' exactly when both
\* hold, 'undercut' with 'medium' when only the first does and
\* 'promo_intensity' with 'medium' when only the second does.
C19_DetectCases ==
    DetectReturned =>
        LET returned == p_result[1].returned
        IN  /\ returned = <<>> <=> ~BothUndercut /\ ~PromoAtThreshold
            /\ BothUndercut /\ PromoAtThreshold
                  <=> returned # <<>> /\ returned[1].signal_type = "combined"
            /\ returned # <<>> /\ returned[1].signal_type = "combined"
                  => returned[1].severity = "high"
            /\ BothUndercut /\ ~PromoAtThreshold
                  => /\ returned # <<>>
                     /\ returned[1].signal_type = "undercut"
                     /\ returned[1].severity = "medium"
            /\ ~BothUndercut /\ PromoAtThreshold
                  => /\ returned # <<>>
                     /\ returned[1].signal_type = "promo_intensity"
                     /\ returned[1].severity = "medium"

\* a promo score of 3 against a history whose median is 1.5: a spike under
\* the default multiplier only because 3 >= 2 x 1.5
C19_Witness ==
    /\ DetectReturned
    /\ p_result[1].returned # <<>>
    /\ p_result[1].returned[1].signal_type = "promo_intensity"
    /\ p_snapshot[1].promo_score = 3
    /\ Len(p_history) = 2
    /\ p_history[1].promo_score = <<1>>
    /\ p_history[2].promo_score = <<2>>

(***************************************************************************)
(* app/services/history_service.py over app/adapters/neo4j_store.py.  The  *)
(* store keeps the compare runs in a list when it has no driver and in     *)
(* SearchRun nodes when it has one; a statement sent to the driver can     *)
(* raise, before or after it took effect.                                  *)
(***************************************************************************)
\* " ".join(parts)
RECURSIVE JoinWithSpace(_)
JoinWithSpace(parts) ==
    IF parts = <<>> THEN <<>>
    ELSE IF Len(parts) = 1 THEN parts[1]
    ELSE parts[1] \o <<" ">> \o JoinWithSpace(Tail(parts))

\* QueryDiscoveryService.normalize_query
normalize_query(query) == JoinWithSpace(Split(Lower(Strip(query))))

NoCluster == <<"n","o","-","c","l","u","s","t","e","r">>

\* Neo4jStore._compare_id
_compare_id(payload) ==
    payload.normalized_query \o KeySeparator \o payload.generated_at \o KeySeparator
    \o (IF payload.comparison_cluster = <<>> THEN NoCluster
        ELSE payload.comparison_cluster[1].cluster_id)

TopDomains == 8
TopOfferTitles == 5

\* line 348: the non-empty titles of the first five offers
RECURSIVE NonEmptyTexts(_)
NonEmptyTexts(texts) ==
    IF texts = <<>> THEN <<>>
    ELSE (IF Head(texts) # <<>> THEN <<Head(texts)>> ELSE <<>>) \o NonEmptyTexts(Tail(texts))

\* line 336-349: history_row of a response
HistoryRow(payload) ==
    [compare_id |-> _compare_id(payload),
     query |-> payload.query,
     normalized_query |-> payload.normalized_query,
     generated_at |-> payload.generated_at,
     scan_status |-> payload.scan_status,
     offers_scanned |-> payload.offers_scanned,
     offers_kept |-> payload.offers_kept,
     cluster_offer_count |-> IF payload.comparison_cluster = <<>> THEN 0
                             ELSE payload.comparison_cluster[1].offer_count,
     finding_label |-> IF payload.finding = <<>> THEN "none" ELSE payload.finding[1].label,
     spread_percent |-> IF payload.finding = <<>> THEN 0 ELSE payload.finding[1].spread_percent,
     top_domains |-> Slice(payload.sources_seen, 1, Min2(TopDomains, Len(payload.sources_seen))),
     top_offer_titles |-> NonEmptyTexts(Slice(payload.purchase_options, 1,
                              Min2(TopOfferTitles, Len(payload.purchase_options))))]

\* MERGE (r:SearchRun {compare_id}) SET ...: the node of that id is
\* overwritten, or a new node created
RECURSIVE Merged(_, _)
Merged(runs, row) ==
    IF runs = <<>> THEN <<row>>
    ELSE IF Head(runs).compare_id = row.compare_id THEN <<row>> \o Tail(runs)
    ELSE <<Head(runs)>> \o Merged(Tail(runs), row)

\* Neo4jStore.record_compare_response: whether it raised, and the store after it
store_record_compare_response(store, response, fault) ==
    IF store.driver
    THEN [raised |-> fault # "none",
          store |-> IF fault = "before" THEN store
                    ELSE [store EXCEPT !.runs = Merged(store.runs, HistoryRow(response))]]
    ELSE [raised |-> FALSE,
          store |-> [store EXCEPT !.runs = Append(store.runs, HistoryRow(response))]]

\* the store's exception is let through
record_compare_response_uncaught(store, response, fault) ==
    store_record_compare_response(store, response, fault)

\* HistoryService.record_compare_response: whether it raised, and the store after it
record_compare_response(store, response, fault) ==
    LET stored == store_record_compare_response(store, response, fault)
    IN  IF stored.raised THEN [raised |-> FALSE, store |-> stored.store]
        ELSE [raised |-> FALSE, store |-> stored.store]

\* CompareHistoryItem.model_validate(row)
CompareHistoryItem(row) ==
    [compare_id |-> row.compare_id, query |-> row.query,
     normalized_query |-> row.normalized_query, generated_at |-> row.generated_at,
     scan_status |-> row.scan_status, offers_kept |-> row.offers_kept,
     cluster_offer_count |-> row.cluster_offer_count, finding_label |-> row.finding_label,
     spread_percent |-> row.spread_percent, top_domains |-> row.top_domains]

\* rows.sort(key=generated_at, reverse=True): stable, equal keys keep their order
RECURSIVE InsertNewestFirst(_, _)
InsertNewestFirst(sorted, row) ==
    IF sorted = <<>> THEN <<row>>
    ELSE IF StrLess(Head(sorted).generated_at, row.generated_at) THEN <<row>> \o sorted
    ELSE <<Head(sorted)>> \o InsertNewestFirst(Tail(sorted), row)
RECURSIVE NewestFirst(_)
NewestFirst(rows) ==
    IF rows = <<>> THEN <<>>
    ELSE InsertNewestFirst(NewestFirst(SubSeq(rows, 1, Len(rows) - 1)), rows[Len(rows)])

\* the rows of a normalized query, in the order they are kept
RECURSIVE RunsOf(_, _)
RunsOf(runs, normalized_query) ==
    IF runs = <<>> THEN <<>>
    ELSE (IF Head(runs).normalized_query = normalized_query THEN <<Head(runs)>> ELSE <<>>)
         \o RunsOf(Tail(runs), normalized_query)

\* ORDER BY r.generated_at DESC: the orders the database may answer in (rows
\* of equal generated_at in any order)
NewestFirstOrders(rows) ==
    {order \in DistinctSeqs(1..Len(rows), Len(rows)) :
        /\ Len(order) = Len(rows)
        /\ \A i \in 1..(Len(order) - 1) :
              ~StrLess(rows[order[i]].generated_at, rows[order[i + 1]].generated_at)}

\* the first `limit` of the runs, as items
FirstItems(rows, limit) ==
    [i \in 1..Min2(limit, Len(rows)) |-> CompareHistoryItem(rows[i])]

\* Neo4jStore.get_compare_history: whether it raised, and the items. order is
\* the order the database answers in.
store_get_compare_history(store, normalized_query, limit, fault, order) ==
    IF store.driver
    THEN IF fault # "none" THEN [raised |-> TRUE, items |-> <<>>]
         ELSE IF store.runs = <<>> THEN [raised |-> FALSE, items |-> <<>>]
         ELSE LET rows == RunsOf(store.runs, normalized_query)
              IN  [raised |-> FALSE,
                   items |-> FirstItems([i \in 1..Len(rows) |-> rows[order[i]]], limit)]
    ELSE [raised |-> FALSE,
          items |-> FirstItems(NewestFirst(RunsOf(store.runs, normalized_query)), limit)]

\* the store's exception is let through
get_history_uncaught(store, query, limit, fault, order) ==
    store_get_compare_history(store, normalize_query(query), limit, fault, order)

\* HistoryService.get_history: whether it raised, and the items
get_history(store, query, limit, fault, order) ==
    LET found == store_get_compare_history(store, normalize_query(query), limit, fault, order)
    IN  IF found.raised THEN [raised |-> FALSE, items |-> <<>>]
        ELSE [raised |-> FALSE, items |-> found.items]

(***************************************************************************)
(* Instances of HistoryService.                                            *)
(***************************************************************************)
SonySpaced == <<" "," ","S","o","n","y"," "," "," ","W","H","-","1","0","0","0","X","M","5"," "," ">>
AppleQuery == <<"a","p","p","l","e"," ","a","1","2","3","4","5","6">>
At0801 == <<"0","8",":","0","1">>
At0802 == <<"0","8",":","0","2">>
At0803 == <<"0","8",":","0","3">>
ExactSonyId == <<"e","x","a","c","t",":",":","s","o","n","y">>

\* a CompareResponse, as model_dump(mode="json") gives it
CompareResponse(query, generated_at, cluster, finding) ==
    [query |-> query, normalized_query |-> normalize_query(query),
     generated_at |-> generated_at, scan_status |-> "partial",
     offers_scanned |-> 2, offers_kept |-> 2,
     sources_seen |-> <<bestbuy_com, amazon_com>>,
     purchase_options |-> <<SonyTitle, NoText>>,
     comparison_cluster |-> cluster, finding |-> finding]

\* The responses recorded: three Sony runs at three times, a fourth at the
\* time of the second with a cluster and a finding, a fifth that differs from
\* the third only in how the query was typed, and an Apple run.
Responses ==
    {CompareResponse(SonyQuery, t, <<>>, <<>>) : t \in {At0801, At0802, At0803}}
    \cup {CompareResponse(SonyQuery, At0802,
                          <<[cluster_id |-> ExactSonyId, offer_count |-> 2]>>,
                          <<[label |-> "watch", spread_percent |-> 606]>>),
          CompareResponse(SonySpaced, At0803, <<>>, <<>>),
          CompareResponse(AppleQuery, At0801, <<>>, <<>>)}

HistoryQueries == {SonySpaced, SonyQuery, AppleQuery}
MaxLimit == 2
MaxHistoryCalls == 4
StoreFaults == {"none", "before", "after"}

\* Neo4jStore with a driver, and without (enabled False)
InitHistory ==
    /\ op = "history"
    /\ h_store \in {[driver |-> d, runs |-> <<>>] : d \in BOOLEAN}
    /\ h_result = <<>>
    /\ h_calls = 0
    /\ IdleOthers("history")

\* history_service.record_compare_response(response)
RecordCompareResponse(response, fault) ==
    /\ op = "history"
    /\ h_calls < MaxHistoryCalls
    /\ h_store.driver \/ fault = "none"
    /\ LET out == record_compare_response(h_store, response, fault)
       IN  /\ h_store' = out.store
           /\ h_result' = <<[method |-> "record_compare_response", raised |-> out.raised,
                             store_raised |-> h_store.driver /\ fault # "none",
                             query |-> <<>>, limit |-> 0, items |-> <<>>]>>
    /\ h_calls' = h_calls + 1
    /\ UNCHANGED <<op, not_h_vars>>

\* history_service.get_history(query, limit)
GetHistory(query, limit, fault) ==
    /\ op = "history"
    /\ h_calls < MaxHistoryCalls
    /\ h_store.driver \/ fault = "none"
    /\ \E order \in NewestFirstOrders(RunsOf(h_store.runs, normalize_query(query))) :
          LET out == get_history(h_store, query, limit, fault, order)
          IN  h_result' = <<[method |-> "get_history", raised |-> out.raised,
                             store_raised |-> h_store.driver /\ fault # "none",
                             query |-> query, limit |-> limit, items |-> out.items]>>
    /\ h_calls' = h_calls + 1
    /\ UNCHANGED <<op, h_store, not_h_vars>>

NextHistory ==
    \/ \E response \in Responses, fault \in StoreFaults : RecordCompareResponse(response, fault)
    \/ \E query \in HistoryQueries, limit \in 1..MaxLimit, fault \in {"none", "before"} :
          GetHistory(query, limit, fault)

SpecHistory == InitHistory /\ [][NextHistory]_vars

(***************************************************************************)
(* Claims about HistoryService                                             *)
(***************************************************************************)
HistoryCalled(method) == op = "history" /\ h_result # <<>> /\ h_result[1].method = method

\* the runs the store holds under a normalized query, as items
ItemsUnder(normalized_query) ==
    {CompareHistoryItem(h_store.runs[i]) :
        i \in {j \in 1..Len(h_store.runs) : h_store.runs[j].normalized_query = normalized_query}}

BLOCKED_TOKENS ==
    { <<"r","e","v","i","e","w">>, <<"r","e","v","i","e","w","s">>, <<"b","l","o","g">>, <<"g","u","i","d","e">>, <<"n","e","w","s">>, <<"f","o","r","u","m">>,
      <<"c","o","m","m","u","n","i","t","y">>, <<"r","e","d","d","i","t">>, <<"y","o","u","t","u","b","e">>, <<"v","i","d","e","o">>, <<"m","a","n","u","a","l">> }
SEARCH_PAGE_MARKERS ==
    { <<"/","s","e","a","r","c","h">>, <<"s","e","a","r","c","h","?">>, <<"?","s","=">>, <<"?","k","=">>, <<"&","k","=">>, <<"c","a","t","e","g","o","r","y">>, <<"c","o","l","l","e","c","t","i","o","n","s">> }
PRODUCT_PATH_HINTS ==
    { <<"/","d","p","/">>, <<"/","g","p","/","p","r","o","d","u","c","t","/">>, <<"/","p","r","o","d","u","c","t","/">>, <<"/","p","r","o","d","u","c","t","s","/">>, <<"/","i","t","e","m","/">>, <<"/","s","i","t","e","/">> }
COMMERCE_HINTS ==
    { <<"b","u","y">>, <<"s","h","o","p">>, <<"p","r","i","c","e">>, <<"c","a","r","t">>, <<"i","n"," ","s","t","o","c","k">>, <<"p","i","c","k","u","p">>, <<"$">>, <<"s","h","i","p","p","i","n","g">> }
\* the keys of SEARCH_URLS in the order of the dict
SEARCH_URLS == << <<"b","e","s","t","b","u","y",".","c","o","m">>, <<"m","i","c","r","o","c","e","n","t","e","r",".","c","o","m">>, <<"a","m","a","z","o","n",".","c","o","m">> >>
BLOCKED_PATH_WORDS == { <<"a","c","c","e","s","s","o","r","i","e","s">>, <<"r","e","p","l","a","c","e","m","e","n","t">> }

\* value.replace(old, "") from position i
RECURSIVE RemoveAll(_, _, _)
RemoveAll(s, i, old) ==
    IF i > Len(s) THEN <<>>
    ELSE IF StartsAt(s, i, old) THEN RemoveAll(s, i + Len(old), old)
    ELSE <<s[i]>> \o RemoveAll(s, i + 1, old)

\* the first position from `from` on that holds a character of C, Len(s) + 1
\* when there is none
RECURSIVE FirstIndex(_, _, _)
FirstIndex(s, from, C) ==
    IF from > Len(s) THEN Len(s) + 1
    ELSE IF s[from] \in C THEN from
    ELSE FirstIndex(s, from + 1, C)

\* urllib.parse: the characters of a scheme
SchemeChars == AlnumSet \cup {"+", "-", "."}
\* urlsplit: the position of the ":" that ends the scheme, 0 without a scheme
SchemeEnd(url) ==
    LET i == FirstIndex(url, 1, {":"})
    IN  IF i <= Len(url) /\ i > 1 /\ IsLetter(url[1])
           /\ \A k \in 1..(i - 1) : url[k] \in SchemeChars
        THEN i ELSE 0

\* urlparse(url): the netloc and the path
urlparse(url) ==
    LET rest == Slice(url, SchemeEnd(url) + 1, Len(url))
        has_netloc == StartsAt(rest, 1, <<"/", "/">>)
        netloc_end == IF has_netloc THEN FirstIndex(rest, 3, {"/", "?", "#"}) ELSE 1
        after == Slice(rest, netloc_end, Len(rest))
    IN  [netloc |-> IF has_netloc THEN Slice(rest, 3, netloc_end - 1) ELSE <<>>,
         path |-> Slice(after, 1, FirstIndex(after, 1, {"?", "#"}) - 1)]

\* parsed.netloc.lower().replace("www.", "")
HostnameOf(url) == RemoveAll(Lower(urlparse(url).netloc), 1, <<"w","w","w",".">>)

\* QueryDiscoveryService._root_domain
_root_domain(domain) ==
    LET cleaned == RemoveAll(Lower(domain), 1, <<"w","w","w",".">>)
        dots == {i \in 1..Len(cleaned) : cleaned[i] = "."}
        before == dots \ {SetMax(dots)}
    IN  IF dots = {} \/ before = {} THEN cleaned
        ELSE Slice(cleaned, SetMax(before) + 1, Len(cleaned))

\* [a-z0-9/-]
RawTokenSet == LowerSet \cup DigitSet \cup {"/", "-"}
\* re.findall(r"[a-z0-9][a-z0-9/-]*", s) from position i
RECURSIVE RawTokens(_, _)
RawTokens(s, i) ==
    IF i > Len(s) THEN <<>>
    ELSE IF s[i] \in LowerSet \/ s[i] \in DigitSet
         THEN <<SubSeq(s, i, i + RunLen(s, i, RawTokenSet) - 1)>>
              \o RawTokens(s, i + RunLen(s, i, RawTokenSet))
         ELSE RawTokens(s, i + 1)

DiscoveryTokenMinLen == 3
CombinedTokenMinLen == 4
\* line 376 and 380: the token is kept
KeepToken(token) == token # <<>> /\ (Len(token) >= DiscoveryTokenMinLen \/ HasDigit(token))

\* split_parts: the kept parts of re.split(r"[^a-z0-9]+", raw), raw by raw
RECURSIVE SplitParts(_)
SplitParts(raws) ==
    IF raws = <<>> THEN <<>>
    ELSE SelectSeq(AlnumTokens(Head(raws), 1), KeepToken) \o SplitParts(Tail(raws))

\* _tokenize_text given the raw matches and split_parts
TokensFrom(raws, split_parts) ==
    {token \in {TokenOf(raws[i]) : i \in 1..Len(raws)} : KeepToken(token)}
    \cup Range(split_parts)
    \cup {token \in {Concat(SubSeq(split_parts, w[1], w[1] + w[2] - 1)) :
                         w \in {v \in (1..Len(split_parts)) \X {2, 3} :
                                   v[1] + v[2] - 1 <= Len(split_parts)}} :
              HasDigit(token) /\ Len(token) >= CombinedTokenMinLen}
TokensOfRaws(raws) == TokensFrom(raws, SplitParts(raws))

\* _tokenize_text
_tokenize_text(value) == TokensOfRaws(RawTokens(Lower(value), 1))

\* QueryDiscoveryService._token_overlap as the fraction hits / of
_token_overlap(query_tokens, haystack) == OverlapOf(query_tokens, _tokenize_text(haystack))

\* f"{candidate.title} {candidate.snippet} {candidate.url}"
CandidateText(candidate) ==
    candidate.title \o <<" ">> \o candidate.snippet \o <<" ">> \o candidate.url
\* f"{candidate.title} {candidate.snippet}".lower()
LoweredText(candidate) == Lower(candidate.title \o <<" ">> \o candidate.snippet)

\* any(token in text for token in tokens)
AnyIn(tokens, text) == \E token \in tokens : Contains(text, token)

\* QueryDiscoveryService._reject_candidate without the search-page markers
_reject_candidate_no_markers(candidate) ==
    LET path == Lower(urlparse(candidate.url).path)
        text == Lower(CandidateText(candidate))
    IN  \/ HostnameOf(candidate.url) = <<>>
        \/ AnyIn(BLOCKED_TOKENS, text)
        \/ AnyIn(BLOCKED_PATH_WORDS, path)

\* QueryDiscoveryService._reject_candidate
_reject_candidate(candidate) ==
    LET path == Lower(urlparse(candidate.url).path)
        text == Lower(CandidateText(candidate))
        lowered_url == Lower(candidate.url)
    IN  \/ HostnameOf(candidate.url) = <<>>
        \/ AnyIn(BLOCKED_TOKENS, text)
        \/ AnyIn(SEARCH_PAGE_MARKERS, path) \/ AnyIn(SEARCH_PAGE_MARKERS, lowered_url)
        \/ AnyIn(BLOCKED_PATH_WORDS, path)

\* QueryDiscoveryService._has_product_hint
_has_product_hint(candidate) ==
    \/ AnyIn(PRODUCT_PATH_HINTS, Lower(candidate.url))
    \/ AnyIn(COMMERCE_HINTS, LoweredText(candidate))

\* QueryDiscoveryService._has_commerce_hint
_has_commerce_hint(candidate) ==
    \/ AnyIn(COMMERCE_HINTS, LoweredText(candidate))
    \/ Contains(LoweredText(candidate), <<"$">>)

\* candidate.score or 0.0, in ten-thousandths
ScoreOrZero(candidate) == IF candidate.score = <<>> THEN 0 ELSE candidate.score[1]

\* overlap < hundredths / 100
OverlapBelow(overlap, hundredths) == overlap.hits * 100 < hundredths * overlap.of
\* round(overlap, 4) in ten-thousandths
RoundedOverlap(overlap) == RoundDiv(overlap.hits * 10000, overlap.of)

NoHintOverlapKnownDomain == 35
NoHintOverlap == 50
NoCommerceOverlapHinted == 40
NoCommerceOverlap == 65

\* qualify_candidates, lines 128-131: the candidate is kept
EnoughOverlap(overlap, product_hint, commerce_hint, domain_hint) ==
    /\ ~(~product_hint
         /\ OverlapBelow(overlap, IF domain_hint THEN NoHintOverlapKnownDomain
                                  ELSE NoHintOverlap))
    /\ ~(~commerce_hint
         /\ OverlapBelow(overlap, IF product_hint \/ domain_hint
                                  THEN NoCommerceOverlapHinted ELSE NoCommerceOverlap))

\* qualify_candidates, lines 122-131: the candidate is kept
Qualifies(candidate, query_tokens) ==
    /\ ~_reject_candidate(candidate)
    /\ EnoughOverlap(_token_overlap(query_tokens, CandidateText(candidate)),
                     _has_product_hint(candidate), _has_commerce_hint(candidate),
                     _root_domain(candidate.domain) \in Range(SEARCH_URLS))

\* qualify_candidates, lines 132-133: the copy that is appended
Qualified(candidate, query_tokens) ==
    [candidate EXCEPT !.score =
        <<Max2(ScoreOrZero(candidate),
               RoundedOverlap(_token_overlap(query_tokens, CandidateText(candidate))))>>]

\* QueryDiscoveryService.qualify_candidates
RECURSIVE QualifyFrom(_, _)
QualifyFrom(candidates, query_tokens) ==
    IF candidates = <<>> THEN <<>>
    ELSE (IF Qualifies(Head(candidates), query_tokens)
          THEN <<Qualified(Head(candidates), query_tokens)>> ELSE <<>>)
         \o QualifyFrom(Tail(candidates), query_tokens)
qualify_candidates(candidates, normalized_query) ==
    QualifyFrom(candidates, _tokenize_text(normalized_query))


\* a DiscoveryCandidate: score is <<>> for None or <<ten-thousandths>>,
\* preview_price is <<>> for None or <<cents>>
DiscoveryCandidate(domain, title, url, snippet, overlap, source, preview_price, availability, condition) ==
    [domain |-> domain, title |-> title, url |-> url, snippet |-> snippet, score |-> overlap,
     source |-> source, preview_price |-> preview_price,
     preview_availability |-> availability, preview_condition |-> condition]

\* re.search(r"\$\s*([0-9]+(?:\.[0-9]{1,2})?)", text): <<the cents of group 1>> of
\* the first match from position i on, <<>> without a match
RECURSIVE DollarAmountFrom(_, _)
DollarAmountFrom(text, i) ==
    IF i > Len(text) THEN <<>>
    ELSE LET start == i + 1 + RunLen(text, i + 1, {" "})
             whole == RunLen(text, start, DigitSet)
             dot == start + whole
             decimals == IF dot <= Len(text) /\ text[dot] = "."
                         THEN Min2(RunLen(text, dot + 1, DigitSet), 2) ELSE 0
             cents == IF decimals = 0 THEN 0
                      ELSE IF decimals = 1 THEN 10 * DigitsToNat(SubSeq(text, dot + 1, dot + 1))
                      ELSE DigitsToNat(SubSeq(text, dot + 1, dot + 2))
         IN  IF text[i] = "$" /\ whole > 0
             THEN <<100 * DigitsToNat(SubSeq(text, start, start + whole - 1)) + cents>>
             ELSE DollarAmountFrom(text, i + 1)

\* QueryDiscoveryService._parse_preview_price
_parse_preview_price(text) == DollarAmountFrom(RemoveAll(text, 1, <<",">>), 1)

\* QueryDiscoveryService._extract_preview_availability
_extract_preview_availability(text) ==
    IF Contains(Lower(text), <<"o","u","t"," ","o","f"," ","s","t","o","c","k">>) THEN <<"o","u","t"," ","o","f"," ","s","t","o","c","k">>
    ELSE IF Contains(Lower(text), <<"i","n"," ","s","t","o","c","k">>) THEN <<"i","n"," ","s","t","o","c","k">>
    ELSE IF Contains(Lower(text), <<"p","i","c","k","u","p">>) THEN <<"p","i","c","k","u","p"," ","a","v","a","i","l","a","b","l","e">>
    ELSE <<>>

\* QueryDiscoveryService._infer_preview_condition
_infer_preview_condition(text) ==
    LET lowered == Lower(text)
    IN  IF Contains(lowered, <<"o","p","e","n"," ","b","o","x">>) \/ Contains(lowered, <<"o","p","e","n","-","b","o","x">>) THEN "open_box"
        ELSE IF Contains(lowered, <<"r","e","n","e","w","e","d">>) \/ Contains(lowered, <<"r","e","f","u","r","b","i","s","h","e","d">>)
             THEN "refurbished"
        ELSE IF Contains(lowered, <<"u","s","e","d">>) \/ Contains(lowered, <<"p","r","e","-","o","w","n","e","d">>)
                \/ Contains(lowered, <<"p","r","e"," ","o","w","n","e","d">>) THEN "used"
        ELSE IF Contains(lowered, <<"n","e","w">>) THEN "new"
        ELSE "unknown"

TitleMaxLen == 240
SnippetMaxLen == 360
\* value[:n]
Truncated(value, n) == Slice(value, 1, Min2(Len(value), n))

\* An <a href> node of the fetched page as BeautifulSoup and urljoin give it:
\* url is urljoin(base_url, href) of a non-blank href, text is
\* node.get_text(" ", strip=True), aria_label and title are the stripped
\* attributes, context_text is _site_search_context_text(node).
AnchorTitle(node) == OrElse(node.text, OrElse(node.aria_label, node.title))
AnchorSnippet(node) == Truncated(OrElse(node.aria_label, node.context_text), SnippetMaxLen)

\* _extract_site_search_candidates, lines 220-234
CandidateOf(url, title, snippet, context_text, query_tokens) ==
    DiscoveryCandidate(
        _root_domain(HostnameOf(url)),
        Truncated(title, TitleMaxLen),
        url,
        Truncated(snippet, SnippetMaxLen),
        <<RoundedOverlap(_token_overlap(query_tokens,
                                        title \o <<" ">> \o snippet \o <<" ">> \o url))>>,
        "site_search",
        _parse_preview_price(context_text),
        _extract_preview_availability(context_text),
        _infer_preview_condition(title \o <<" ">> \o snippet))
AnchorCandidate(node, query_tokens) ==
    CandidateOf(node.url, AnchorTitle(node), AnchorSnippet(node), node.context_text,
                query_tokens)

\* _extract_site_search_candidates, lines 206-238: a node of the domain is
\* counted, and its candidate kept unless it is blank, seen or rejected
ScanAnchor(found, title, snippet, candidate) ==
    [scanned_count |-> found.scanned_count + 1,
     candidates |->
        IF (title = <<>> /\ snippet = <<>>)
           \/ (\E k \in 1..Len(found.candidates) : found.candidates[k].url = candidate.url)
           \/ _reject_candidate(candidate)
        THEN found.candidates
        ELSE Append(found.candidates, candidate)]

\* _extract_site_search_candidates, the loop of lines 197-238 from node i on
RECURSIVE ExtractAnchorsFrom(_, _, _, _, _)
ExtractAnchorsFrom(domain, query_tokens, nodes, i, found) ==
    IF i > Len(nodes) THEN found
    ELSE ExtractAnchorsFrom(domain, query_tokens, nodes, i + 1,
             IF ~Contains(HostnameOf(nodes[i].url), domain) THEN found
             ELSE ScanAnchor(found, AnchorTitle(nodes[i]), AnchorSnippet(nodes[i]),
                             AnchorCandidate(nodes[i], query_tokens)))

\* QueryDiscoveryService._extract_site_search_candidates
_extract_site_search_candidates(domain, normalized_query, nodes) ==
    ExtractAnchorsFrom(domain, _tokenize_text(normalized_query), nodes, 1,
                       [candidates |-> <<>>, scanned_count |-> 0])

\* the notes of the site-search fallback
FallbackFailed(domain, exc) == [text |-> "Site-search fallback failed", domain |-> domain, exc |-> exc]
FallbackFound(count, scanned, domain) ==
    [text |-> "Site-search fallback found purchase candidates", count |-> count,
     scanned |-> scanned, domain |-> domain]
FallbackFoundNone(scanned, domain) ==
    [text |-> "Site-search fallback found no purchase candidates", scanned |-> scanned,
     domain |-> domain]
TavilyNotConfigured == [text |-> "Tavily is not configured. Falling back to retailer site search only."]
NoProductPages == [text |-> "No product pages were discovered. Try a more specific electronics model query."]

\* a site search that leaves no note when it finds candidates
SiteSearchFound_quiet(found, limit, domain) ==
    [candidates |-> Truncated(found.candidates, limit),
     note |-> IF found.candidates # <<>> THEN <<>>
              ELSE <<FallbackFoundNone(found.scanned_count, domain)>>]

\* _discover_from_site_search, lines 180-182, given what line 174 found
SiteSearchFound(found, limit, domain) ==
    IF found.candidates # <<>>
    THEN [candidates |-> Truncated(found.candidates, limit),
          note |-> <<FallbackFound(Min2(Len(found.candidates), limit), found.scanned_count,
                                   domain)>>]
    ELSE [candidates |-> <<>>, note |-> <<FallbackFoundNone(found.scanned_count, domain)>>]

\* QueryDiscoveryService._discover_from_site_search; fetch is what httpx.get and
\* raise_for_status give for the domain's search URL: raises is <<the exception>>
\* or <<>>, nodes are the anchors of the page
_discover_from_site_search(service, domain, normalized_query, fetch) ==
    IF domain \notin Range(SEARCH_URLS) THEN [candidates |-> <<>>, note |-> <<>>]
    ELSE IF fetch.raises # <<>>
         THEN [candidates |-> <<>>, note |-> <<FallbackFailed(domain, fetch.raises[1])>>]
    ELSE SiteSearchFound(
             _extract_site_search_candidates(domain, normalized_query, fetch.nodes),
             service.max_results_per_domain, domain)

\* future.result() at lines 146-149: a worker that raises outside its own try
\* block (worker_raises) is caught there
FutureResult(service, domain, normalized_query, fetch) ==
    IF fetch.worker_raises # <<>>
    THEN [candidates |-> <<>>, note |-> <<FallbackFailed(domain, fetch.worker_raises[1])>>]
    ELSE _discover_from_site_search(service, domain, normalized_query, fetch)

\* lines 150-152
Collected(acc, done) ==
    [candidates |-> acc.candidates \o done.candidates, warnings |-> acc.warnings \o done.note]

\* QueryDiscoveryService._site_search_fallback: completed lists the domains in
\* the order in which their futures complete
RECURSIVE SiteSearchFrom(_, _, _, _, _)
SiteSearchFrom(service, normalized_query, pages, completed, acc) ==
    IF completed = <<>> THEN acc
    ELSE SiteSearchFrom(service, normalized_query, pages, Tail(completed),
             Collected(acc, FutureResult(service, Head(completed), normalized_query,
                                         pages[Head(completed)])))
_site_search_fallback(service, normalized_query, pages, completed) ==
    SiteSearchFrom(service, normalized_query, pages, completed,
                   [candidates |-> <<>>, warnings |-> <<>>])

\* a dedupe that keeps the first candidate of a URL whatever the scores
RECURSIVE DedupeFrom_keep_first(_, _)
DedupeFrom_keep_first(candidates, by_url) ==
    IF candidates = <<>> THEN by_url
    ELSE DedupeFrom_keep_first(Tail(candidates),
             IF \E k \in 1..Len(by_url) : by_url[k].url = Head(candidates).url
             THEN by_url ELSE Append(by_url, Head(candidates)))

\* QueryDiscoveryService._dedupe_candidates: by_url as the list of its values
RECURSIVE DedupeFrom(_, _)
DedupeFrom(candidates, by_url) ==
    IF candidates = <<>> THEN by_url
    ELSE LET candidate == Head(candidates)
             at == {k \in 1..Len(by_url) : by_url[k].url = candidate.url}
         IN  DedupeFrom(Tail(candidates),
                 IF at = {} THEN Append(by_url, candidate)
                 ELSE IF ScoreOrZero(candidate) > ScoreOrZero(by_url[SetMin(at)])
                      THEN [by_url EXCEPT ![SetMin(at)] = candidate]
                 ELSE by_url)
_dedupe_candidates(candidates) == DedupeFrom(candidates, <<>>)

\* QueryDiscoveryService._dedupe_strings
RECURSIVE DedupeStringsFrom(_, _)
DedupeStringsFrom(items, output) ==
    IF items = <<>> THEN output
    ELSE DedupeStringsFrom(Tail(items),
             IF Head(items) \in Range(output) THEN output ELSE Append(output, Head(items)))
_dedupe_strings(items) == DedupeStringsFrom(items, <<>>)

\* line 103: the sort key (item.score is not None, item.score or 0.0, len(item.title))
CandidateKey(item) ==
    <<IF item.score # <<>> THEN 1 ELSE 0, ScoreOrZero(item), Len(item.title)>>
\* a < b for tuples of three numbers
TripleLess(a, b) ==
    \/ a[1] < b[1]
    \/ a[1] = b[1] /\ a[2] < b[2]
    \/ a[1] = b[1] /\ a[2] = b[2] /\ a[3] < b[3]

\* list.sort(key=..., reverse=True): greatest key first, equal keys in the
\* order they had
RECURSIVE InsertCandidate(_, _)
InsertCandidate(sorted, item) ==
    IF sorted = <<>> THEN <<item>>
    ELSE IF TripleLess(CandidateKey(Head(sorted)), CandidateKey(item))
         THEN <<item>> \o sorted
    ELSE <<Head(sorted)>> \o InsertCandidate(Tail(sorted), item)
RECURSIVE SortCandidatesFrom(_, _)
SortCandidatesFrom(items, sorted) ==
    IF items = <<>> THEN sorted
    ELSE SortCandidatesFrom(Tail(items), InsertCandidate(sorted, Head(items)))
SortCandidates(items) == SortCandidatesFrom(items, <<>>)

\* Counter: the (key, count) pairs in the order the keys were first counted
RECURSIVE CountFrom(_, _)
CountFrom(keys, counter) ==
    IF keys = <<>> THEN counter
    ELSE LET at == {k \in 1..Len(counter) : counter[k].key = Head(keys)}
         IN  CountFrom(Tail(keys),
                 IF at = {} THEN Append(counter, [key |-> Head(keys), count |-> 1])
                 ELSE [counter EXCEPT ![SetMin(at)].count = @ + 1])

\* Counter.most_common: greatest count first, equal counts in counting order
RECURSIVE InsertCount(_, _)
InsertCount(sorted, item) ==
    IF sorted = <<>> THEN <<item>>
    ELSE IF Head(sorted).count < item.count THEN <<item>> \o sorted
    ELSE <<Head(sorted)>> \o InsertCount(Tail(sorted), item)
RECURSIVE MostCommonFrom(_, _)
MostCommonFrom(counter, sorted) ==
    IF counter = <<>> THEN sorted
    ELSE MostCommonFrom(Tail(counter), InsertCount(sorted, Head(counter)))
SourcesSeenMax == 12
most_common(counter, n) == Truncated(MostCommonFrom(counter, <<>>), n)

\* the root domains of the candidates, one per candidate
RootDomains(candidates) == [i \in 1..Len(candidates) |-> _root_domain(candidates[i].domain)]

\* self.tavily.search_products(query=..., max_results=..., query_variants=...) at
\* lines 74-78.  TavilyClient.search_products takes (query, domains,
\* max_results_per_domain): the call binds no domains and passes two keywords
\* the method does not have, which is a TypeError.  The double of the tests
\* takes these keywords and returns its candidates.
search_products(tavily) ==
    IF tavily.class = "TavilyClient"
    THEN [raises |-> "TypeError", candidates |-> <<>>]
    ELSE [raises |-> "", candidates |-> tavily.candidates]

\* TavilyClient.enabled, and the attribute of the double
TavilyEnabled(tavily) ==
    IF tavily.class = "TavilyClient" THEN tavily.api_key # <<>> ELSE tavily.enabled

\* Counter.most_common(12) of the root domains counted at lines 85-86 and 97-98
SourcesSeen(counted) == [i \in 1..Len(counted) |-> counted[i].key]

\* discover, lines 102-116
DiscoveryResult(normalized_query, tavily_enabled, raw_candidates, fallback, deduped) ==
    [normalized_query |-> normalized_query,
     candidates |-> deduped,
     scanned_candidates |-> Len(_dedupe_candidates(raw_candidates \o fallback.candidates)),
     sources_seen |->
        SourcesSeen(most_common(CountFrom(RootDomains(raw_candidates)
                                          \o RootDomains(fallback.candidates), <<>>),
                                SourcesSeenMax)),
     warnings |-> _dedupe_strings((IF tavily_enabled THEN <<>> ELSE <<TavilyNotConfigured>>)
                                  \o fallback.warnings
                                  \o (IF deduped = <<>> THEN <<NoProductPages>> ELSE <<>>)),
     degraded |-> ~tavily_enabled \/ fallback.warnings # <<>>]

\* discover, lines 99-103, given what the fallback returned
DiscoverFromFallback(normalized_query, tavily_enabled, raw_candidates, qualified, fallback) ==
    DiscoveryResult(normalized_query, tavily_enabled, raw_candidates, fallback,
        SortCandidates(_dedupe_candidates(
            qualified \o qualify_candidates(fallback.candidates, normalized_query))))

\* discover, lines 88-91: the retailers no qualified candidate is from
FallbackDomains(qualified) ==
    LET is_fallback(domain) == domain \notin Range(RootDomains(qualified))
    IN  SelectSeq(SEARCH_URLS, is_fallback)
\* discover, lines 88-98, given the qualified raw candidates
DiscoverFromQualified(service, normalized_query, raw_candidates, qualified, pages, completion) ==
    DiscoverFromFallback(normalized_query, TavilyEnabled(service.tavily), raw_candidates,
        qualified,
        IF FallbackDomains(qualified) # <<>>
        THEN _site_search_fallback(service, normalized_query, pages, completion)
        ELSE [candidates |-> <<>>, warnings |-> <<>>])

\* discover, lines 73-82, given what search_products did when it was called
DiscoverFromSearch(service, normalized_query, searched, pages, completion) ==
    IF searched.raises # ""
    THEN [raises |-> searched.raises, result |-> <<>>]
    ELSE [raises |-> "",
          result |-> <<DiscoverFromQualified(service, normalized_query, searched.candidates,
                           qualify_candidates(searched.candidates, normalized_query),
                           pages, completion)>>]

\* the site searches a call of discover submits, in the order of submission
SubmittedSiteSearches(service, query) ==
    IF TavilyEnabled(service.tavily) /\ search_products(service.tavily).raises # "" THEN <<>>
    ELSE FallbackDomains(qualify_candidates(
             IF TavilyEnabled(service.tavily) THEN search_products(service.tavily).candidates
             ELSE <<>>,
             normalize_query(query)))

\* QueryDiscoveryService.discover: [raises |-> the exception, result |-> <<>>] or
\* [raises |-> "", result |-> <<the DiscoveryResult>>]; completion lists the
\* fallback domains in the order in which their futures complete
discover(service, query, pages, completion) ==
    DiscoverFromSearch(service, normalize_query(query),
        IF TavilyEnabled(service.tavily) THEN search_products(service.tavily)
        ELSE [raises |-> "", candidates |-> <<>>],
        pages, completion)


(***************************************************************************)
(* Calls of discover: a service around the real TavilyClient (with and     *)
(* without an API key) or around the double of the tests, whose candidates *)
(* are a run of TavilyPool; each retailer's site search fails or gives a   *)
(* page of anchors.                                                        *)
(***************************************************************************)
MaxTavilyResults == 2
\* max_results_per_domain: the default of the constructor
DefaultResultsPerDomain == 2

BestBuyDomain == SEARCH_URLS[1]
MicroCenterDomain == SEARCH_URLS[2]
AmazonDomain == SEARCH_URLS[3]
SonyXm5Title == <<"S","o","n","y"," ","W","H","-","1","0","0","0","X","M","5">>
BestBuyXm5Url == <<"h","t","t","p","s",":","/","/","w","w","w",".","b","e","s","t","b","u","y",".","c","o","m","/","s","i","t","e","/","x","m","5">>
AmazonXm5Url == <<"h","t","t","p","s",":","/","/","w","w","w",".","a","m","a","z","o","n",".","c","o","m","/","d","p","/","B","0">>

TavilyCandidate(domain, title, url, snippet, overlap) ==
    DiscoveryCandidate(domain, title, url, snippet, overlap, "tavily", <<>>, <<>>, "unknown")

TavilyPool ==
    << TavilyCandidate(<<"r","t","i","n","g","s",".","c","o","m">>, <<"S","o","n","y"," ","W","H","-","1","0","0","0","X","M","5"," ","R","e","v","i","e","w">>,
                       <<"h","t","t","p","s",":","/","/","r","t","i","n","g","s",".","c","o","m","/","x","m","5">>, <<"$","3","4","8">>, <<9900>>),
       TavilyCandidate(<<"w","w","w",".","b","e","s","t","b","u","y",".","c","o","m">>, SonyXm5Title, BestBuyXm5Url, <<"$","3","4","8">>, <<9000>>),
       TavilyCandidate(<<"w","w","w",".","b","e","s","t","b","u","y",".","c","o","m">>, <<"S","o","n","y"," ","W","H","-","1","0","0","0","X","M","5"," ","B","l","a","c","k">>, BestBuyXm5Url,
                       <<"i","n"," ","s","t","o","c","k">>, <<9500>>),
       TavilyCandidate(<<"a","m","a","z","o","n",".","c","o","m">>, SonyXm5Title, <<"h","t","t","p","s",":","/","/","w","w","w",".","a","m","a","z","o","n",".","c","o","m","/","s","?","k","=","x","m","5">>,
                       <<>>, <<8000>>),
       TavilyCandidate(<<"a","m","a","z","o","n",".","c","o","m">>, SonyXm5Title, AmazonXm5Url, <<>>, <<>>) >>

\* the runs of at most n consecutive elements of pool
RunsUpTo(pool, n) ==
    {Slice(pool, i, j) : <<i, j>> \in {<<a, b>> \in (1..Len(pool)) \X (0..Len(pool)) :
                                          b - a + 1 <= n /\ (b >= a \/ (a = 1 /\ b = 0))}}

\* one qualifying candidate of the search API for each retailer of SEARCH_URLS
TavilyCoverage ==
    << TavilyPool[2],
       TavilyCandidate(<<"w","w","w",".","m","i","c","r","o","c","e","n","t","e","r",".","c","o","m">>, SonyXm5Title,
                       <<"h","t","t","p","s",":","/","/","w","w","w",".","m","i","c","r","o","c","e","n","t","e","r",".","c","o","m","/","p","r","o","d","u","c","t","/","1","/","x","m","5">>, <<"$","3","2","9"," ","i","n"," ","s","t","o","c","k">>,
                       <<8500>>),
       TavilyPool[5] >>

Tavilies ==
    { [class |-> "TavilyClient", api_key |-> key, enabled |-> key # <<>>, candidates |-> <<>>] :
          key \in { <<>>, <<"t","v","l","y","-","1">> } }
    \cup { [class |-> "FakeTavily", api_key |-> <<>>, enabled |-> TRUE, candidates |-> found] :
               found \in RunsUpTo(TavilyPool, MaxTavilyResults) \cup {TavilyCoverage} }

\* config.py line 18, and a setting of SUPPORTED_RETAIL_DOMAINS_JSON
DEFAULT_RETAIL_DOMAINS == << <<"b","e","s","t","b","u","y",".","c","o","m">>, <<"m","i","c","r","o","c","e","n","t","e","r",".","c","o","m">>, <<"a","m","a","z","o","n",".","c","o","m">> >>
BestBuyAndWalmart == << <<"b","e","s","t","b","u","y",".","c","o","m">>, <<"w","a","l","m","a","r","t",".","c","o","m">> >>

\* the services of the default setting, one that keeps one result per domain
\* and one whose supported domains are set
DiscoveryServices ==
    { [tavily |-> tavily, supported_domains |-> DEFAULT_RETAIL_DOMAINS,
       max_results_per_domain |-> DefaultResultsPerDomain] : tavily \in Tavilies }
    \cup { [tavily |-> tavily, supported_domains |-> domains, max_results_per_domain |-> limit] :
               tavily \in {t \in Tavilies : t.class = "TavilyClient" /\ t.api_key = <<>>},
               <<domains, limit>> \in { <<DEFAULT_RETAIL_DOMAINS, 1>>,
                                        <<BestBuyAndWalmart, DefaultResultsPerDomain>> } }

DiscoverQueries == { <<" ","S","o","n","y"," "," ","W","H","-","1","0","0","0","X","M","5"," ">>, <<"x","m","5">>, <<"s","o","n","y"," ","x","m","5"," ","h","e","a","d","p","h","o","n","e","s">> }

Anchor(url, text, aria_label, context_text) ==
    [url |-> url, text |-> text, aria_label |-> aria_label, title |-> <<>>,
     context_text |-> context_text]

FetchRaises(exc) == [raises |-> <<exc>>, worker_raises |-> <<>>, nodes |-> <<>>]
WorkerRaises(exc) == [raises |-> <<>>, worker_raises |-> <<exc>>, nodes |-> <<>>]
Page(nodes) == [raises |-> <<>>, worker_raises |-> <<>>, nodes |-> nodes]

BestBuyPage ==
    Page(<< Anchor(BestBuyXm5Url, SonyXm5Title, <<>>, <<"S","o","n","y"," ","W","H","-","1","0","0","0","X","M","5"," ","$","3","4","8",".","0","0"," ","i","n"," ","s","t","o","c","k">>),
            Anchor(<<"h","t","t","p","s",":","/","/","w","w","w",".","b","e","s","t","b","u","y",".","c","o","m","/","s","i","t","e","/","s","e","a","r","c","h","p","a","g","e",".","j","s","p","?","s","t","=","x","m","5">>, <<"N","e","x","t"," ","p","a","g","e">>,
                   <<>>, <<>>),
            Anchor(<<"h","t","t","p","s",":","/","/","a","d","s",".","e","x","a","m","p","l","e",".","c","o","m","/","x","m","5">>, SonyXm5Title, <<>>, <<>>),
            Anchor(<<"h","t","t","p","s",":","/","/","w","w","w",".","b","e","s","t","b","u","y",".","c","o","m","/","s","i","t","e","/","x","m","5","-","o","p","e","n">>, <<>>, <<"S","o","n","y"," ","W","H","-","1","0","0","0","X","M","5"," ","O","p","e","n","-","B","o","x">>,
                   <<"S","o","n","y"," ","W","H","-","1","0","0","0","X","M","5"," ","O","p","e","n","-","B","o","x"," ","$","1",",","2","9","9",".","5"," ","p","i","c","k","u","p">>) >>)
MicroCenterPage ==
    Page(<< Anchor(<<"h","t","t","p","s",":","/","/","w","w","w",".","m","i","c","r","o","c","e","n","t","e","r",".","c","o","m","/","p","r","o","d","u","c","t","/","1","/","x","m","5","-","r","e","v","i","e","w","s">>, SonyXm5Title,
                   <<>>, <<>>),
            Anchor(<<"h","t","t","p","s",":","/","/","w","w","w",".","m","i","c","r","o","c","e","n","t","e","r",".","c","o","m","/","p","r","o","d","u","c","t","/","1","/","x","m","5">>, SonyXm5Title, <<>>,
                   <<"S","o","n","y"," ","W","H","-","1","0","0","0","X","M","5"," ","$"," ","3","2","9"," ","o","u","t"," ","o","f"," ","s","t","o","c","k">>) >>)
AmazonPage ==
    Page(<< Anchor(AmazonXm5Url, SonyXm5Title, <<>>, <<"S","o","n","y"," ","W","H","-","1","0","0","0","X","M","5"," ","$","3","4","8",".","0","0"," ","n","e","w">>),
            Anchor(AmazonXm5Url, SonyXm5Title, <<>>, <<"S","o","n","y"," ","W","H","-","1","0","0","0","X","M","5"," ","$","3","4","8",".","0","0"," ","n","e","w">>),
            Anchor(<<"h","t","t","p","s",":","/","/","w","w","w",".","a","m","a","z","o","n",".","c","o","m","/","x">>, <<>>, <<>>, <<>>) >>)

SitePages ==
    { [domain \in Range(SEARCH_URLS) |->
          IF domain = BestBuyDomain THEN from_best_buy
          ELSE IF domain = MicroCenterDomain THEN from_micro_center ELSE from_amazon] :
      from_best_buy \in {FetchRaises("HTTPStatusError"), BestBuyPage},
      from_micro_center \in {WorkerRaises("ValueError"), MicroCenterPage},
      from_amazon \in {FetchRaises("ConnectError"), Page(<<>>), AmazonPage} }

\* the sequences that list every element of S once
OrdersOf(S) == {order \in [1..Cardinality(S) -> S] : Range(order) = S}

InitDiscover ==
    /\ op = "discover"
    /\ d_service \in DiscoveryServices
    /\ d_query \in DiscoverQueries
    /\ d_pages \in SitePages
    /\ d_result = <<>>
    /\ d_error = ""
    /\ IdleOthers("discover")

\* one call of discover; the futures of the site searches complete in any order
Discover ==
    /\ op = "discover"
    /\ d_result = <<>>
    /\ d_error = ""
    /\ \E completion \in OrdersOf(Range(SubmittedSiteSearches(d_service, d_query))) :
          LET outcome == discover(d_service, d_query, d_pages, completion)
          IN  /\ d_result' = outcome.result
              /\ d_error' = outcome.raises
    /\ UNCHANGED <<op, d_service, d_query, d_pages, not_d_vars>>

NextDiscover == Discover
SpecDiscover == InitDiscover /\ [][NextDiscover]_vars

\* the text of a candidate discover returned holds one of the tokens / markers
UrlHasMarker(candidate) == AnyIn(SEARCH_PAGE_MARKERS, Lower(candidate.url))
TextHasBlockedToken(candidate) ==
    \/ AnyIn(BLOCKED_TOKENS, Lower(candidate.title))
    \/ AnyIn(BLOCKED_TOKENS, Lower(candidate.snippet))
    \/ AnyIn(BLOCKED_TOKENS, Lower(candidate.url))
\* the candidates the call was given: by the search API, by the site searches
GivenBySearch == d_service.tavily.candidates
GivenBySiteSearch(domain) ==
    [i \in 1..Len(d_pages[domain].nodes) |->
        AnchorCandidate(d_pages[domain].nodes[i], _tokenize_text(normalize_query(d_query)))]

\* C11: no candidate that discover returns, whether it came from the search
\* API or from a site search, has a search/listing-page marker in its URL or a
\* blocklisted token in its title, snippet or URL.
C11_NoSearchOrBlockedCandidate ==
    d_result # <<>> =>
        \A i \in 1..Len(d_result[1].candidates) :
            /\ ~UrlHasMarker(d_result[1].candidates[i])
            /\ ~TextHasBlockedToken(d_result[1].candidates[i])

\* discover was given a search-page URL by the search API and a blocklisted
\* URL by a site search, and returned candidates from both sources
C11_Witness ==
    /\ d_result # <<>>
    /\ \E i \in 1..Len(GivenBySearch) : UrlHasMarker(GivenBySearch[i])
    /\ \E i \in 1..Len(GivenBySiteSearch(MicroCenterDomain)) :
          TextHasBlockedToken(GivenBySiteSearch(MicroCenterDomain)[i])
    /\ \E i, j \in 1..Len(d_result[1].candidates) :
          /\ d_result[1].candidates[i].source = "tavily"
          /\ d_result[1].candidates[j].source = "site_search"

\* a site search failed, or discover found no candidate
DiscoverDegraded ==
    \/ \E domain \in Range(SEARCH_URLS) :
          d_pages[domain].raises # <<>> \/ d_pages[domain].worker_raises # <<>>
    \/ d_result # <<>> /\ d_result[1].candidates = <<>>

\* C15: discover never raises: when the search API fails, a site-search fetch
\* fails or no candidate is found, it returns a DiscoveryResult with a warning.
C15_DiscoverNeverRaises ==
    /\ d_error = ""
    /\ d_result # <<>> /\ DiscoverDegraded => d_result[1].warnings # <<>>


(***************************************************************************)
(* app/services/product_extractor.py                                       *)
(***************************************************************************)
PROMO_PATTERNS == <<<<"s","a","l","e">>, <<"s","a","v","e">>, <<"d","i","s","c","o","u","n","t">>, <<"c","o","u","p","o","n">>, <<"d","e","a","l">>, <<"%"," ","o","f","f">>,
                    <<"c","l","e","a","r","a","n","c","e">>, <<"g","i","f","t"," ","c","a","r","d">>>>
\* the dict in insertion order
USED_MARKERS ==
    << [marker |-> <<"u","s","e","d">>, condition |-> "used"],
       [marker |-> <<"p","r","e","-","o","w","n","e","d">>, condition |-> "used"],
       [marker |-> <<"p","r","e"," ","o","w","n","e","d">>, condition |-> "used"],
       [marker |-> <<"r","e","n","e","w","e","d">>, condition |-> "refurbished"],
       [marker |-> <<"r","e","f","u","r","b","i","s","h","e","d">>, condition |-> "refurbished"],
       [marker |-> <<"o","p","e","n"," ","b","o","x">>, condition |-> "open_box"],
       [marker |-> <<"o","p","e","n","-","b","o","x">>, condition |-> "open_box"] >>
AVAILABILITY_MAP ==
    << [key |-> <<"i","n","s","t","o","c","k">>, label |-> <<"i","n"," ","s","t","o","c","k">>],
       [key |-> <<"o","u","t","o","f","s","t","o","c","k">>, label |-> <<"o","u","t"," ","o","f"," ","s","t","o","c","k">>],
       [key |-> <<"p","r","e","o","r","d","e","r">>, label |-> <<"p","r","e","o","r","d","e","r">>],
       [key |-> <<"l","i","m","i","t","e","d","a","v","a","i","l","a","b","i","l","i","t","y">>, label |-> <<"l","i","m","i","t","e","d"," ","a","v","a","i","l","a","b","i","l","i","t","y">>] >>
PRODUCT_PAGE_MARKERS == { <<"/","d","p","/">>, <<"/","p","r","o","d","u","c","t","/">>, <<"/","s","i","t","e","/">>, <<"/","i","t","e","m","/">> }

\* ProductExtractorService.__init__: the fields extract_many reads
DefaultMaxWorkers == 4
DefaultMaxCandidatesPerPlatform == 2
ProductExtractorService(max_workers, max_candidates_per_platform) ==
    [max_workers |-> Max2(1, max_workers),
     max_candidates_per_platform |-> Max2(1, max_candidates_per_platform)]

\* str.find from position i on: the position of the first occurrence, 0 if
\* there is none (positions count from 1)
RECURSIVE FindFrom(_, _, _)
FindFrom(s, t, i) ==
    IF i + Len(t) - 1 > Len(s) THEN 0
    ELSE IF StartsAt(s, i, t) THEN i
    ELSE FindFrom(s, t, i + 1)

\* the position in lowered of the first pattern of PROMO_PATTERNS, from the
\* k-th pattern on, that occurs in it; 0 if none does
RECURSIVE FirstPromo(_, _)
FirstPromo(lowered, k) ==
    IF k > Len(PROMO_PATTERNS) THEN 0
    ELSE IF Contains(lowered, PROMO_PATTERNS[k]) THEN FindFrom(lowered, PROMO_PATTERNS[k], 1)
    ELSE FirstPromo(lowered, k + 1)

PromoBefore == 40
PromoAfter == 120
\* page_text[max(0, idx - 40): idx + 120].strip() with idx = at - 1, or the snippet
PromoWindow(page_text, snippet, at) ==
    IF at = 0 THEN Strip(snippet)
    ELSE Strip(Slice(page_text, Max2(1, at - PromoBefore),
                     Min2(Len(page_text), at - 1 + PromoAfter)))

\* ProductExtractorService._extract_promo_text
_extract_promo_text(page_text, snippet) ==
    PromoWindow(page_text, snippet, FirstPromo(Lower(page_text), 1))

RECURSIVE AvailabilityFrom(_, _)
AvailabilityFrom(squeezed, k) ==
    IF k > Len(AVAILABILITY_MAP) THEN <<>>
    ELSE IF Contains(squeezed, AVAILABILITY_MAP[k].key) THEN AVAILABILITY_MAP[k].label
    ELSE AvailabilityFrom(squeezed, k + 1)

AvailabilityOr(mapped, lowered) ==
    IF mapped # <<>> THEN mapped
    ELSE IF Contains(lowered, <<"o","u","t"," ","o","f"," ","s","t","o","c","k">>) THEN <<"o","u","t"," ","o","f"," ","s","t","o","c","k">>
    ELSE IF Contains(lowered, <<"i","n"," ","s","t","o","c","k">>) THEN <<"i","n"," ","s","t","o","c","k">>
    ELSE <<"u","n","k","n","o","w","n">>

\* ProductExtractorService._normalize_availability
_normalize_availability(value) ==
    AvailabilityOr(AvailabilityFrom(RemoveAll(Lower(value), 1, <<" ">>), 1), Lower(value))

RECURSIVE ConditionFrom(_, _)
ConditionFrom(corpus, k) ==
    IF k > Len(USED_MARKERS)
    THEN (IF Contains(corpus, <<"n","e","w">>) THEN "new" ELSE "unknown")
    ELSE IF Contains(corpus, USED_MARKERS[k].marker) THEN USED_MARKERS[k].condition
    ELSE ConditionFrom(corpus, k + 1)

PageTextCorpusLen == 1500
\* ProductExtractorService._infer_condition
_infer_condition(title, snippet, page_text, url) ==
    ConditionFrom(Lower(title \o <<" ">> \o snippet \o <<" ">>
                        \o Slice(page_text, 1, Min2(Len(page_text), PageTextCorpusLen))
                        \o <<" ">> \o url), 1)

\* str.capitalize()
Capitalize(s) == IF s = <<>> THEN <<>> ELSE <<UpperChar(s[1])>> \o Lower(Tail(s))
CapitalizeAll(parts) == [i \in 1..Len(parts) |-> Capitalize(parts[i])]
DashToBlank(s) == [i \in 1..Len(s) |-> IF s[i] = "-" THEN " " ELSE s[i]]
\* s.split(".")[0]
BeforeFirstDot(s) == Slice(s, 1, FirstIndex(s, 1, {"."}) - 1)

\* ProductExtractorService._humanize_domain
_humanize_domain(domain) ==
    JoinWithSpace(CapitalizeAll(Split(DashToBlank(
        BeforeFirstDot(RemoveAll(domain, 1, <<"w","w","w",".">>))))))

\* ProductExtractorService._offer_id: the sha1 prefix, kept as a tag on the url
\* it is computed from
_offer_id(url) == [sha1 |-> url]

\* ProductExtractorService._first_non_empty
RECURSIVE _first_non_empty(_)
_first_non_empty(values) ==
    IF values = <<>> THEN <<>>
    ELSE IF Strip(Head(values)) # <<>> THEN Strip(Head(values))
    ELSE _first_non_empty(Tail(values))

\* the cents of (?:\.[0-9]{1,2})? matched at position dot
DecimalCents(text, dot, decimals) ==
    IF decimals = 0 THEN 0
    ELSE IF decimals = 1 THEN 10 * DigitValue(text[dot + 1])
    ELSE DigitsToNat(SubSeq(text, dot + 1, dot + 2))

DecimalsAt(text, dot) ==
    IF dot <= Len(text) /\ text[dot] = "." THEN Min2(RunLen(text, dot + 1, DigitSet), 2) ELSE 0

\* float(group 1) of [0-9]+(?:\.[0-9]{1,2})? matched at start, whole digits long, in cents
AmountAt(text, start, whole) ==
    100 * DigitsToNat(SubSeq(text, start, start + whole - 1))
        + DecimalCents(text, start + whole, DecimalsAt(text, start + whole))

\* re.search(r"([0-9]+(?:\.[0-9]{1,2})?)", text): <<the cents of group 1>>, <<>> without a match
FirstAmount(text, start) ==
    IF start > Len(text) THEN <<>>
    ELSE <<AmountAt(text, start, RunLen(text, start, DigitSet))>>

\* ProductExtractorService._parse_price
_parse_price(value) ==
    IF value = <<>> THEN <<>>
    ELSE FirstAmount(RemoveAll(value, 1, <<",">>),
                     FirstIndex(RemoveAll(value, 1, <<",">>), 1, DigitSet))

\* What lines 84-91 and 295-304 read off a fetched response: the final url, the
\* JSON-LD Product node (<<>> without one; node and offers are its keys with
\* the strings their values resolve to), the meta tags by lowered key, the
\* <title>, the [itemprop="price"] element (<<>> without one),
\* _regex_find_price(html) and the page text.
Response(url, product, meta, soup_title, itemprop_price, regex_price, page_text) ==
    [url |-> url, product |-> product, meta |-> meta, soup_title |-> soup_title,
     itemprop_price |-> itemprop_price, regex_price |-> regex_price, page_text |-> page_text]

\* dict.get(key, "") on the meta tags
MetaGet(meta, key) == IF key \in DOMAIN meta THEN meta[key] ELSE <<>>

\* ProductExtractorService._from_product: str(None) for a key the node lacks
_from_product(product, key) ==
    IF product = <<>> THEN <<>>
    ELSE IF key \in DOMAIN product[1].node THEN Strip(product[1].node[key])
    ELSE <<"N","o","n","e">>

\* ProductExtractorService._brand_from_product
_brand_from_product(product) ==
    IF product = <<>> THEN <<>>
    ELSE IF "brand" \in DOMAIN product[1].node THEN Strip(product[1].node["brand"])
    ELSE <<>>

\* ProductExtractorService._offer_value
_offer_value(product, key) ==
    IF product = <<>> THEN <<>>
    ELSE IF key \in DOMAIN product[1].offers THEN Strip(product[1].offers[key])
    ELSE <<>>

\* ProductExtractorService._offer_seller_name
_offer_seller_name(product) == _offer_value(product, "seller")

\* lines 305-309: the first candidate string that parses
RECURSIVE FirstParsed(_)
FirstParsed(candidates) ==
    IF candidates = <<>> THEN <<>>
    ELSE IF _parse_price(Head(candidates)) # <<>> THEN _parse_price(Head(candidates))
    ELSE FirstParsed(Tail(candidates))

\* ProductExtractorService._extract_price
_extract_price(product, meta, itemprop_price, regex_price) ==
    FirstParsed(<<_offer_value(product, "price"), MetaGet(meta, "product:price:amount"),
                  MetaGet(meta, "price"), MetaGet(meta, "twitter:data1")>>
                \o itemprop_price \o <<regex_price>>)

\* What a call of extract_one does: it raises, returns None or returns an offer.
ExtractRaised(exc) == [raises |-> exc, offer |-> <<>>]
ExtractReturned(offer) == [raises |-> "", offer |-> offer]

\* PurchaseOption(...) without the bound on price
Validated_unbounded(option) == ExtractReturned(<<option>>)

\* PurchaseOption(...) as pydantic builds it: price is Field(gt=0)
Validated(option) ==
    IF option.price > 0 THEN ExtractReturned(<<option>>) ELSE ExtractRaised("ValidationError")

\* DiscoveryCandidate.preview_currency is never set by discover: (... or "USD").upper()[:3]
PreviewCurrency == <<"U","S","D">>

\* lines 177-197
PreviewOption(candidate, url, source_domain, resolved_title, resolved_brand, resolved_model, variant) ==
    Validated(
        PurchaseOption(
            _offer_id(url), _humanize_domain(source_domain), source_domain, resolved_title,
            resolved_brand, resolved_model,
            OrElse(variant, extract_variant_token(resolved_title \o <<" ">> \o resolved_model)),
            candidate.preview_price[1],
            IF candidate.preview_condition # "" THEN candidate.preview_condition
            ELSE _infer_condition(resolved_title, candidate.snippet, candidate.snippet, url),
            _extract_promo_text(candidate.snippet, candidate.snippet),
            url, 0, <<candidate.source, "preview-price">>)
        @@ [currency |-> PreviewCurrency,
            availability |-> OrElse(candidate.preview_availability,
                                    _normalize_availability(candidate.snippet)),
            image |-> <<>>])

\* lines 173-175
PreviewTitled(candidate, url, source_domain, resolved_title, brand, model, variant) ==
    PreviewOption(candidate, url, source_domain, resolved_title,
                  OrElse(brand, infer_brand(resolved_title)),
                  OrElse(model, extract_model_identifier(resolved_title)), variant)

\* lines 171-173
PreviewAt(candidate, url, title, brand, model, variant) ==
    PreviewTitled(candidate, url,
                  _root_domain(OrElse(urlparse(url).netloc, candidate.domain)),
                  OrElse(title, OrElse(candidate.title, url)), brand, model, variant)

\* ProductExtractorService._offer_from_candidate_preview, final_url <<>> for None
_offer_from_candidate_preview(candidate, final_url, title, brand, model, variant) ==
    IF candidate.preview_price = <<>> THEN ExtractReturned(<<>>)
    ELSE PreviewAt(candidate,
                   IF final_url # <<>> /\ final_url[1] # <<>> THEN final_url[1] ELSE candidate.url,
                   title, brand, model, variant)

\* lines 130-138
ParseNotes(candidate, page, promo_text) ==
    <<candidate.source, IF page.product # <<>> THEN "jsonld" ELSE "fallback">>
    \o (IF AnyIn(PRODUCT_PAGE_MARKERS, Lower(page.url)) THEN <<"product-page">> ELSE <<>>)
    \o (IF candidate.snippet # <<>> /\ promo_text = candidate.snippet
        THEN <<"promo-from-discovery">> ELSE <<>>)

\* lines 111-158
PricedOption(candidate, page, source_domain, title, brand, model, variant, price, promo_text) ==
    Validated(
        PurchaseOption(
            _offer_id(page.url),
            _first_non_empty(<<_offer_seller_name(page.product), MetaGet(page.meta, "og:site_name"),
                               _humanize_domain(source_domain)>>),
            source_domain, OrElse(title, OrElse(candidate.title, page.url)),
            brand, model, variant, price,
            _infer_condition(title, candidate.snippet, page.page_text, page.url),
            promo_text, page.url, 0, ParseNotes(candidate, page, promo_text))
        @@ [currency |-> Slice(Upper(_first_non_empty(
                                <<_offer_value(page.product, "priceCurrency"),
                                  MetaGet(page.meta, "product:price:currency"), <<"U","S","D">>>>)), 1, 3),
            availability |-> _normalize_availability(
                                OrElse(_offer_value(page.product, "availability"),
                                       OrElse(MetaGet(page.meta, "product:availability"),
                                              page.page_text))),
            image |-> _first_non_empty(<<_from_product(page.product, "image"),
                                         MetaGet(page.meta, "og:image")>>)])

\* lines 108-116
ExtractPriced(candidate, page, title, brand, model, variant, price) ==
    IF price = <<>>
    THEN _offer_from_candidate_preview(candidate, <<page.url>>, title, brand, model, variant)
    ELSE PricedOption(candidate, page,
                      _root_domain(OrElse(urlparse(page.url).netloc, candidate.domain)),
                      title, brand, model, variant, price[1],
                      _extract_promo_text(page.page_text, candidate.snippet))

\* lines 107-108
ExtractModelled(candidate, page, title, brand, model) ==
    ExtractPriced(candidate, page, title, brand, model,
                  extract_variant_token(title \o <<" ">> \o model),
                  _extract_price(page.product, page.meta, page.itemprop_price, page.regex_price))

\* lines 100-106
ExtractTitled(candidate, page, title) ==
    ExtractModelled(candidate, page, title,
        _first_non_empty(<<_brand_from_product(page.product), infer_brand(title)>>),
        _first_non_empty(<<_from_product(page.product, "model"), _from_product(page.product, "mpn"),
                           _from_product(page.product, "sku"), extract_model_identifier(title)>>))

\* ProductExtractorService.extract_one.  fetch is what httpx.get and
\* raise_for_status did for candidate.url: [raises |-> the exception] or
\* [raises |-> "", response |-> the Response].
extract_one(candidate, fetch) ==
    IF fetch.raises # ""
    THEN _offer_from_candidate_preview(candidate, <<>>, <<>>, <<>>, <<>>, <<>>)
    ELSE ExtractTitled(candidate, fetch.response,
             _first_non_empty(<<_from_product(fetch.response.product, "name"),
                                MetaGet(fetch.response.meta, "og:title"),
                                MetaGet(fetch.response.meta, "twitter:title"),
                                candidate.title, fetch.response.soup_title>>))

\* lines 389-395: the candidates whose url was not seen before, in order
RECURSIVE FirstByUrl(_, _)
FirstByUrl(candidates, kept) ==
    IF candidates = <<>> THEN kept
    ELSE FirstByUrl(Tail(candidates),
                    IF \E k \in 1..Len(kept) : kept[k].url = Head(candidates).url
                    THEN kept ELSE Append(kept, Head(candidates)))

\* grouped[domain]
DomainGroup(kept, domain) == SelectSeq(kept, LAMBDA candidate : candidate.domain = domain)

\* sorted(grouped): the domains in str order
RECURSIVE SortedDomains(_)
SortedDomains(domains) ==
    IF domains = {} THEN <<>>
    ELSE LET least == CHOOSE d \in domains : \A e \in domains \ {d} : StrLess(d, e)
         IN  <<least>> \o SortedDomains(domains \ {least})

\* lines 397-405
RECURSIVE SelectFrom(_, _, _)
SelectFrom(service, kept, domains) ==
    IF domains = <<>> THEN <<>>
    ELSE Slice(SortCandidates(DomainGroup(kept, Head(domains))), 1,
               Min2(service.max_candidates_per_platform, Len(DomainGroup(kept, Head(domains)))))
         \o SelectFrom(service, kept, Tail(domains))

SelectKept(service, kept) ==
    SelectFrom(service, kept, SortedDomains({kept[k].domain : k \in 1..Len(kept)}))

\* ProductExtractorService._select_candidates
_select_candidates(service, candidates) == SelectKept(service, FirstByUrl(candidates, <<>>))

\* the warnings of lines 60 and 63
ExtractorFailed(domain, exc) == [text |-> "Extractor failed for {}: {}.", domain |-> domain, exc |-> exc]
CouldNotParse(domain) == [text |-> "Could not parse a priced product page for {}.", domain |-> domain]

\* a < b for the sort key (offer.source_domain, offer.price)
OfferKeyLess(a, b) ==
    \/ StrLess(a.source_domain, b.source_domain)
    \/ a.source_domain = b.source_domain /\ a.price < b.price

\* list.sort(key=...): least key first, equal keys in the order they had
RECURSIVE InsertOffer(_, _)
InsertOffer(sorted, offer) ==
    IF sorted = <<>> THEN <<offer>>
    ELSE IF OfferKeyLess(offer, Head(sorted)) THEN <<offer>> \o sorted
    ELSE <<Head(sorted)>> \o InsertOffer(Tail(sorted), offer)
RECURSIVE SortOffersFrom(_, _)
SortOffersFrom(offers, sorted) ==
    IF offers = <<>> THEN sorted
    ELSE SortOffersFrom(Tail(offers), InsertOffer(sorted, Head(offers)))

\* lines 56-65 without the warning of line 63
Collect_silent(acc, candidate, outcome) ==
    IF outcome.raises # ""
    THEN [acc EXCEPT !.warnings = Append(@, ExtractorFailed(candidate.domain, outcome.raises))]
    ELSE IF outcome.offer = <<>> THEN acc
    ELSE [acc EXCEPT !.offers = Append(@, outcome.offer[1])]

\* lines 56-65 for one completed future
Collect(acc, candidate, outcome) ==
    IF outcome.raises # ""
    THEN [acc EXCEPT !.warnings = Append(@, ExtractorFailed(candidate.domain, outcome.raises))]
    ELSE IF outcome.offer = <<>>
    THEN [acc EXCEPT !.warnings = Append(@, CouldNotParse(candidate.domain))]
    ELSE [acc EXCEPT !.offers = Append(@, outcome.offer[1])]

\* lines 55-65: the futures in the order they complete
RECURSIVE CollectFrom(_, _, _, _)
CollectFrom(selected, fetches, completed, acc) ==
    IF completed = <<>> THEN acc
    ELSE CollectFrom(selected, fetches, Tail(completed),
             Collect(acc, selected[Head(completed)],
                     extract_one(selected[Head(completed)],
                                 fetches[selected[Head(completed)].url])))

SortedResult(acc) == [offers |-> SortOffersFrom(acc.offers, <<>>), warnings |-> acc.warnings]

ExtractSelected(selected, fetches, completed) ==
    IF selected = <<>> THEN [offers |-> <<>>, warnings |-> <<>>]
    ELSE SortedResult(CollectFrom(selected, fetches, completed,
                                  [offers |-> <<>>, warnings |-> <<>>]))

\* ProductExtractorService.extract_many.  fetches gives what the fetch of each
\* url does, completed is the order in which as_completed yields the futures
\* of the selected candidates (by their position in selected).
extract_many(service, candidates, fetches, completed) ==
    ExtractSelected(_select_candidates(service, candidates), fetches, completed)


(***************************************************************************)
(* extract_many on the candidates of one compare request.                  *)
(***************************************************************************)
MaxExtractCandidates == 3

BestBuyOpenBoxUrl == <<"h","t","t","p","s",":","/","/","w","w","w",".","b","e","s","t","b","u","y",".","c","o","m","/","s","i","t","e","/","x","m","5","-","b">>
MicroCenterXm5Url == <<"h","t","t","p","s",":","/","/","w","w","w",".","m","i","c","r","o","c","e","n","t","e","r",".","c","o","m","/","p","r","o","d","u","c","t","/","x","m","5">>
Xm5Snippet == <<"S","o","n","y"," ","W","H","-","1","0","0","0","X","M","5"," ","h","e","a","d","p","h","o","n","e","s">>

\* the candidate discover builds from a site-search anchor
SiteSearchCandidate(domain, url, preview_price, availability, condition) ==
    DiscoveryCandidate(domain, SonyXm5Title, url, Xm5Snippet, <<10000>>, "site_search",
                       preview_price, availability, condition)

\* MicroCenter's anchor read "$0 down", Best Buy's two anchors name the same price
ExtractPool ==
    << SiteSearchCandidate(MicroCenterDomain, MicroCenterXm5Url, <<0>>, <<>>, "unknown"),
       SiteSearchCandidate(BestBuyDomain, BestBuyXm5Url, <<34800>>, <<"i","n"," ","s","t","o","c","k">>, "new"),
       SiteSearchCandidate(BestBuyDomain, BestBuyOpenBoxUrl, <<34800>>, <<>>, "open_box"),
       TavilyCandidate(AmazonDomain, SonyXm5Title, AmazonXm5Url, <<"S","a","v","e"," ","$","5","0"," ","o","n"," ","S","o","n","y">>, <<9000>>),
       TavilyCandidate(BestBuyDomain, <<"S","o","n","y"," ","X","M","5">>, BestBuyXm5Url, <<>>, <<>>) >>

ExtractCandidateLists == RunsUpTo(ExtractPool, MaxExtractCandidates)

\* main.py builds the extractor with the default limits; a deployment may
\* lower max_candidates_per_platform
ExtractorServices ==
    { ProductExtractorService(DefaultMaxWorkers, limit) :
          limit \in {1, DefaultMaxCandidatesPerPlatform} }

FetchFails(exc) == [raises |-> exc]
Fetched(response) == [raises |-> "", response |-> response]

\* a page with a JSON-LD Product node that has no model, mpn or image
JsonLdPage(url) ==
    Fetched(Response(url,
        <<[node |-> [name |-> SonyXm5Title, brand |-> <<"S","o","n","y">>, sku |-> <<"6","5","0","5","7","2","7">>],
           offers |-> [price |-> <<"3","4","8",".","0","0">>, priceCurrency |-> <<"u","s","d">>,
                       availability |-> <<"I","n","S","t","o","c","k">>]]>>,
        <<>>, <<"S","o","n","y"," ","-"," ","B","e","s","t"," ","B","u","y">>, <<>>, <<"3","4","8",".","0","0">>, <<"S","o","n","y"," ","W","H","-","1","0","0","0","X","M","5"," ","$","3","4","8",".","0","0">>))
\* a page that gives its price in meta tags only
MetaPage(url) ==
    Fetched(Response(url, <<>>,
        ("product:price:amount" :> <<"3","4","8",".","0","0">>) @@ ("og:site_name" :> <<"B","e","s","t"," ","B","u","y">>),
        <<>>, <<>>, <<>>, <<"O","p","e","n","-","B","o","x"," ","d","e","a","l">>))
\* a page without any price
NoPricePage(url) ==
    Fetched(Response(url, <<>>, <<>>, <<"S","o","n","y"," ","W","H","-","1","0","0","0","X","M","5">>, <<>>, <<>>, <<"S","o","l","d"," ","o","u","t">>))
\* a page whose price is found by _regex_find_price only
RegexPage(url) ==
    Fetched(Response(url, <<>>, <<>>, <<>>, <<>>, <<"3","2","9",".","9">>, <<"S","o","n","y"," ","$","3","2","9",".","9"," ","n","e","w">>))
\* a page whose price element reads 0.00
ZeroPricePage(url) ==
    Fetched(Response(url, <<>>, <<>>, <<>>, << <<"0",".","0","0">> >>, <<"0",".","0","0">>, <<"$","0",".","0","0"," ","w","i","t","h"," ","t","r","a","d","e","-","i","n">>))

\* what fetching each url may do
FetchOutcomes(url) ==
    IF url = BestBuyXm5Url THEN {FetchFails("ConnectTimeout"), JsonLdPage(url)}
    ELSE IF url = BestBuyOpenBoxUrl
    THEN {FetchFails("HTTPStatusError"), MetaPage(url), NoPricePage(url)}
    ELSE IF url = AmazonXm5Url
    THEN {FetchFails("ReadTimeout"), RegexPage(url), ZeroPricePage(url)}
    ELSE {FetchFails("ConnectError"), NoPricePage(url)}

UrlsOf(candidates) == {candidates[i].url : i \in 1..Len(candidates)}
AllFetchOutcomes == UNION {FetchOutcomes(url) : url \in UrlsOf(ExtractPool)}
FetchesFor(candidates) ==
    {fetches \in [UrlsOf(candidates) -> AllFetchOutcomes] :
         \A url \in UrlsOf(candidates) : fetches[url] \in FetchOutcomes(url)}

InitExtract ==
    /\ op = "extract"
    /\ e_service \in ExtractorServices
    /\ e_candidates \in ExtractCandidateLists
    /\ e_fetches \in FetchesFor(e_candidates)
    /\ e_order = <<>>
    /\ e_result = <<>>
    /\ IdleOthers("extract")

\* one call of extract_many: the futures of the selected candidates complete
\* in any order
Extract ==
    /\ op = "extract"
    /\ e_result = <<>>
    /\ \E completed \in OrdersOf(1..Len(_select_candidates(e_service, e_candidates))) :
           /\ e_order' = completed
           /\ e_result' = <<extract_many(e_service, e_candidates, e_fetches, completed)>>
    /\ UNCHANGED <<op, e_service, e_candidates, e_fetches, not_e_vars>>

NextExtract == Extract
SpecExtract == InitExtract /\ [][NextExtract]_vars


\* the candidates extract_many works on, what fetching each one's url did and
\* what extract_one makes of it on its own
Selected == _select_candidates(e_service, e_candidates)
FetchOf(candidate) == e_fetches[candidate.url]
AloneOutcome(candidate) == extract_one(candidate, FetchOf(candidate))
\* the page was fetched and none of its price strings parses
NoPriceFetched(candidate) ==
    /\ FetchOf(candidate).raises = ""
    /\ _extract_price(FetchOf(candidate).response.product, FetchOf(candidate).response.meta,
                      FetchOf(candidate).response.itemprop_price,
                      FetchOf(candidate).response.regex_price) = <<>>
FetchFailed(candidate) == FetchOf(candidate).raises # ""
\* the url an offer for the candidate carries
FinalUrl(candidate) ==
    IF FetchFailed(candidate) THEN candidate.url ELSE FetchOf(candidate).response.url
\* the returned offers that come from the candidate, the warnings that name a domain
OffersOf(candidate) ==
    SelectSeq(e_result[1].offers, LAMBDA offer : offer.url = FinalUrl(candidate))
WarningsNaming(domain) ==
    {w \in 1..Len(e_result[1].warnings) : e_result[1].warnings[w].domain = domain}
HasPreview(candidate) == candidate.preview_price # <<>>
HasPositivePreview(candidate) == HasPreview(candidate) /\ candidate.preview_price[1] > 0
IsPreviewOffer(offer, candidate) ==
    /\ offer.price = candidate.preview_price[1]
    /\ offer.parse_notes = <<candidate.source, "preview-price">>
AllPricesPositive == \A k \in 1..Len(e_result[1].offers) : e_result[1].offers[k].price > 0

C13_FetchFailureFallsBack ==
    e_result # <<>> =>
        \A i \in 1..Len(Selected) :
            FetchFailed(Selected[i]) =>
                /\ AloneOutcome(Selected[i]).raises = ""
                /\ IF HasPreview(Selected[i])
                   THEN /\ AloneOutcome(Selected[i]).offer # <<>>
                        /\ IsPreviewOffer(AloneOutcome(Selected[i]).offer[1], Selected[i])
                   ELSE /\ AloneOutcome(Selected[i]).offer = <<>>
                        /\ CouldNotParse(Selected[i].domain) \in Range(e_result[1].warnings)

IdentityOrder(n) == [i \in 1..n |-> i]

\* C16: for fixed candidates and fixed fetch outcomes the offers extract_many
\* returns are the same list for every order in which the futures complete:
\* they are the list returned when the futures complete in submission order.
C16_OffersIgnoreCompletionOrder ==
    e_result # <<>> =>
        e_result[1].offers =
            extract_many(e_service, e_candidates, e_fetches, IdentityOrder(Len(Selected))).offers

\* the candidate's extraction raises, or times out or finds no price
Raises(candidate) == AloneOutcome(candidate).raises # ""
Fails(candidate) ==
    Raises(candidate) \/ FetchFailed(candidate) \/ NoPriceFetched(candidate)
\* ... and has no preview price to fall back on
Dropped(candidate) ==
    \/ Raises(candidate)
    \/ (FetchFailed(candidate) \/ NoPriceFetched(candidate)) /\ ~HasPreview(candidate)
FailingOf(domain) == {i \in 1..Len(Selected) : Selected[i].domain = domain /\ Fails(Selected[i])}
DroppedOf(domain) == {i \in 1..Len(Selected) : Selected[i].domain = domain /\ Dropped(Selected[i])}
Accounted == Len(e_result[1].offers) + Len(e_result[1].warnings) = Len(Selected)

CompareRequest(query) == [query |-> query, category |-> "electronics"]
CompareRequests == {CompareRequest(query) : query \in DiscoverQueries}

\* lines 36-40 and 62-66: query_discovery is built around a TavilyClient, with
\* or without an API key
MainDiscoveryServices == {service \in DiscoveryServices : service.tavily.class = "TavilyClient"}

\* What a call of the handler does: it raises, or returns a CompareResponse.
CompareRaised(exc) == [raises |-> exc, response |-> <<>>]

\* line 123: normalized_query, candidates, platform_statuses, warnings =
\* query_discovery.discover(request.query).  An exception of discover leaves
\* the handler, which has no try statement.  What discover returns is a
\* DiscoveryResult, a dataclass instance (query_discovery.py line 38-45): it is
\* not iterable, so the assignment raises TypeError and lines 124-167 are not
\* reached.
UnpackDiscovery(found) ==
    IF found.raises # "" THEN CompareRaised(found.raises) ELSE CompareRaised("TypeError")

\* compare
compare(request, discovery, pages, completion) ==
    UnpackDiscovery(discover(discovery, request.query, pages, completion))

InitCompare ==
    /\ op = "compare"
    /\ c_request \in CompareRequests
    /\ c_discovery \in MainDiscoveryServices
    /\ c_pages \in SitePages
    /\ c_response = <<>>
    /\ c_error = ""
    /\ IdleOthers("compare")

\* one POST /api/compare
Compare ==
    /\ op = "compare"
    /\ c_response = <<>>
    /\ c_error = ""
    /\ \E completion \in OrdersOf(Range(SubmittedSiteSearches(c_discovery, c_request.query))) :
           /\ c_response' = compare(c_request, c_discovery, c_pages, completion).response
           /\ c_error' = compare(c_request, c_discovery, c_pages, completion).raises
    /\ UNCHANGED <<op, c_request, c_discovery, c_pages, not_c_vars>>

NextCompare == Compare
SpecCompare == InitCompare /\ [][NextCompare]_vars

\* C14: an exception raised by a pipeline stage during a compare request never
\* propagates to the caller: the handler does not raise, and the caller
\* receives a response with degraded status, zero offers and a warning.
C14_CompareNeverRaises ==
    /\ c_error = ""
    /\ c_response # <<>> =>
           /\ c_response[1].scan_status = "degraded"
           /\ c_response[1].purchase_options = <<>>
           /\ c_response[1].warnings # <<>>


(***************************************************************************)
(* Claims about the candidate list, the site searches and the degraded     *)
(* flag of discover.                                                       *)
(***************************************************************************)
\* discover, line 84: the candidates of the search API that qualified
QualifiedBySearch ==
    qualify_candidates(IF TavilyEnabled(d_service.tavily)
                       THEN search_products(d_service.tavily).candidates ELSE <<>>,
                       normalize_query(d_query))
\* discover, line 99: the candidates of the site searches that qualified
QualifiedBySiteSearch ==
    qualify_candidates(
        _site_search_fallback(d_service, normalize_query(d_query), d_pages,
                              SubmittedSiteSearches(d_service, d_query)).candidates,
        normalize_query(d_query))
\* every qualified candidate of the call
QualifiedOfCall == QualifiedBySearch \o QualifiedBySiteSearch

\* the candidates returned have pairwise different URLs
DistinctUrls(returned) ==
    \A i, j \in 1..Len(returned) : i < j => returned[i].url # returned[j].url
\* each candidate returned is a qualified one whose score no qualified
\* candidate of the same URL exceeds
HighestScoreKept(returned, qualified) ==
    \A i \in 1..Len(returned) :
        /\ returned[i] \in Range(qualified)
        /\ \A k \in 1..Len(qualified) :
              qualified[k].url = returned[i].url
                  => ScoreOrZero(qualified[k]) <= ScoreOrZero(returned[i])
\* the candidates returned are in descending order of the sort key
DescendingKeys(returned) ==
    \A i \in 1..(Len(returned) - 1) :
        ~TripleLess(CandidateKey(returned[i]), CandidateKey(returned[i + 1]))
\* two qualified candidates have one URL, the later one with the higher score
LaterDuplicateScoresHigher(qualified) ==
    \E k, l \in 1..Len(qualified) :
        /\ k < l
        /\ qualified[k].url = qualified[l].url
        /\ ScoreOrZero(qualified[k]) < ScoreOrZero(qualified[l])

\* C25: the candidates discover returns have pairwise different URLs; each is
\* a qualified candidate whose score no qualified candidate of the same URL
\* exceeds; and the list is in descending order of (has score, score, title
\* length).
C25_DedupedAndSorted ==
    d_result # <<>> =>
        /\ DistinctUrls(d_result[1].candidates)
        /\ HighestScoreKept(d_result[1].candidates, QualifiedOfCall)
        /\ DescendingKeys(d_result[1].candidates)

\* discover returned two candidates or more with different sort keys, after two
\* qualified candidates had one URL, the later one with the higher score
C25_Witness ==
    /\ d_result # <<>>
    /\ LaterDuplicateScoresHigher(QualifiedOfCall)
    /\ \E i, j \in 1..Len(d_result[1].candidates) :
          TripleLess(CandidateKey(d_result[1].candidates[j]),
                     CandidateKey(d_result[1].candidates[i]))

\* the notes of the site-search fallback among the warnings returned
IsFallbackNote(warning) == "domain" \in DOMAIN warning
\* the domains a site search of the call was attempted for, as its notes name them
SearchedDomains ==
    { d_result[1].warnings[i].domain :
          i \in {k \in 1..Len(d_result[1].warnings) : IsFallbackNote(d_result[1].warnings[k])} }
\* the retail domains the search API gave a qualified candidate for
CoveredBySearch == Range(RootDomains(QualifiedBySearch))

\* C30: a call of discover that returns gives degraded = true exactly when the
\* search API is disabled or a site search was attempted; every attempted site
\* search leaves a note; and degraded = false means the search API is enabled
\* and every domain of SEARCH_URLS has a qualified search-API candidate.
C30_DegradedIffDisabledOrFallback ==
    d_result # <<>> =>
        /\ d_result[1].degraded
              <=> (~TavilyEnabled(d_service.tavily)
                   \/ SubmittedSiteSearches(d_service, d_query) # <<>>)
        /\ Range(SubmittedSiteSearches(d_service, d_query)) = SearchedDomains
        /\ ~d_result[1].degraded
              => /\ TavilyEnabled(d_service.tavily)
                 /\ Range(SEARCH_URLS) \subseteq CoveredBySearch

\* discover returned degraded = true although the search API is enabled and
\* the one site search it attempted found candidates
C30_Witness ==
    /\ d_result # <<>>
    /\ d_result[1].degraded
    /\ TavilyEnabled(d_service.tavily)
    /\ SearchedDomains # {}
    /\ \A i \in 1..Len(d_result[1].warnings) :
          d_result[1].warnings[i].text = FallbackFound(0, 0, <<>>).text
\* discover returned degraded = false
NotDegradedReturned == d_result # <<>> /\ ~d_result[1].degraded

\* the call of discover has ended, by returning or by raising
DiscoverEnded == d_result # <<>> \/ d_error # ""
\* the domains a site-search request of the call was issued for
IssuedSiteSearches ==
    IF d_result # <<>> THEN SearchedDomains ELSE {}

\* C26: in a call of discover a site-search request is issued for a domain
\* exactly when the domain is one of the service's supported_domains and the
\* search API gave no qualified candidate for it; when the search API is
\* disabled, degraded is true and a request is issued for every supported
\* domain.
C26_SiteSearchIffSupportedUncovered ==
    DiscoverEnded =>
        /\ \A domain \in Range(SEARCH_URLS) \cup Range(d_service.supported_domains) :
              domain \in IssuedSiteSearches
                  <=> /\ domain \in Range(d_service.supported_domains)
                      /\ domain \notin CoveredBySearch
        /\ ~TavilyEnabled(d_service.tavily)
              => /\ d_result # <<>> /\ d_result[1].degraded
                 /\ Range(d_service.supported_domains) \subseteq IssuedSiteSearches

\* the same with the keys of SEARCH_URLS in the place of supported_domains, for
\* the calls that return
SiteSearchIffSearchUrlUncovered ==
    d_result # <<>> =>
        /\ \A domain \in Range(SEARCH_URLS) \cup Range(d_service.supported_domains) :
              domain \in IssuedSiteSearches
                  <=> domain \in Range(SEARCH_URLS) /\ domain \notin CoveredBySearch
        /\ ~TavilyEnabled(d_service.tavily)
              => d_result[1].degraded /\ Range(SEARCH_URLS) \subseteq IssuedSiteSearches
\* with the default supported_domains the claim fails in the calls that raise only
DefaultServiceSearchesUncovered ==
    d_result # <<>> /\ d_service.supported_domains = DEFAULT_RETAIL_DOMAINS
        => C26_SiteSearchIffSupportedUncovered


(***************************************************************************)
(* Properties of the fuzzy phase and of the confidence of match.           *)
(***************************************************************************)
\* the LLM transport answered the latest call of match, and match returned
LlmAnswered == op = "match" /\ m_raw # <<>> /\ m_result # <<>>

\* the indexes of the answer that are integers within the offers the LLM was
\* shown: enriched[:6]
ValidIndexes ==
    IF ~m_raw[1].ok \/ ~m_raw[1].object THEN {}
    ELSE { m_raw[1].matched_indexes.items[k].n :
             k \in { j \in 1..Len(m_raw[1].matched_indexes.items) :
                       /\ m_raw[1].matched_indexes.items[j].int
                       /\ 0 <= m_raw[1].matched_indexes.items[j].n
                       /\ m_raw[1].matched_indexes.items[j].n
                             < Min2(FuzzyWindow, Len(m_offers)) } }
\* the offers the valid indexes select
SelectedByLlm == { Compared(m_offers)[n + 1] : n \in ValidIndexes }

FewValidIndexes == Cardinality(ValidIndexes) < MinMatchedIndexes
\* two of the selected offers differ in normalized brand
BrandsDisagree == Cardinality({normalize_text(o.brand) : o \in SelectedByLlm}) > 1
\* two of the selected offers that have a brand differ in normalized brand
GivenBrandsDisagree ==
    Cardinality({normalize_text(o.brand) : o \in {x \in SelectedByLlm : x.brand # <<>>}}) > 1
VariantsConflict == Cardinality({o.variant : o \in SelectedByLlm} \ {<<>>}) > 1
FewSellersOrDomains == Cardinality({_seller_or_domain(o) : o \in SelectedByLlm}) < MinGroupSellers

\* match returned no cluster and a warning of the fuzzy phase
RejectedWithWarning ==
    /\ ReturnedCluster = <<>>
    /\ \E i \in 1..Len(m_result[1].warnings) :
          m_result[1].warnings[i] \in {NoFuzzyCluster, FuzzyChecksFailed, FuzzyFewSellers}

ShownWithConfidence ==
    { [Compared(m_offers)[i] EXCEPT !.match_confidence = o.match_confidence] :
          <<i, o>> \in (1..Min2(FuzzyWindow, Len(m_offers)))
                       \X Range(ReturnedCluster[1].offers) }
\* the answer of the LLM lists an index out of range, a negative one, or an
\* index twice
HasInvalidIndex ==
    /\ m_raw[1].ok /\ m_raw[1].object
    /\ \E j \in 1..Len(m_raw[1].matched_indexes.items) :
          \/ m_raw[1].matched_indexes.items[j].n \notin ValidIndexes
          \/ \E k \in 1..(j - 1) :
                m_raw[1].matched_indexes.items[k] = m_raw[1].matched_indexes.items[j]

\* C22: whatever indexes the LLM returns, the members of an accepted fuzzy
\* cluster are pairwise distinct offers among the first six offers given (as
\* enriched), one for each valid index, and offer_count counts them.
C22_FuzzyMembersDistinctFromShown ==
    LlmAnswered /\ ReturnedCluster # <<>> =>
        /\ \A i, j \in 1..Len(ReturnedCluster[1].offers) :
              i # j => ReturnedCluster[1].offers[i].offer_id
                          # ReturnedCluster[1].offers[j].offer_id
        /\ Range(ReturnedCluster[1].offers) \subseteq ShownWithConfidence
        /\ {o.offer_id : o \in Range(ReturnedCluster[1].offers)}
              = {o.offer_id : o \in SelectedByLlm}
        /\ ReturnedCluster[1].offer_count = Cardinality(Range(ReturnedCluster[1].offers))
        /\ ReturnedCluster[1].offer_count = Cardinality(ValidIndexes)

\* match accepted a fuzzy cluster from seven offers although the answer of the
\* LLM listed the index of the seventh
C22_Witness ==
    /\ LlmAnswered
    /\ ReturnedCluster # <<>>
    /\ Len(m_offers) > FuzzyWindow
    /\ HasInvalidIndex
\* match accepted a fuzzy cluster although the answer of the LLM listed an
\* index twice, a negative index and a string
FuzzyAcceptedOfRepeatedIndex ==
    /\ LlmAnswered
    /\ ReturnedCluster # <<>>
    /\ \E j \in 1..Len(m_raw[1].matched_indexes.items) :
          \E k \in 1..(j - 1) :
              m_raw[1].matched_indexes.items[k] = m_raw[1].matched_indexes.items[j]

\* the confidence of the LLM's answer as match_same_product returns it, in
\* thousandths
LlmConfidence == _clamp_float(m_raw[1].confidence, MatchClampLow, MatchClampHigh)
\* x clamped into [low, high]
ClampedInto(x, low, high) == Max2(low, Min2(high, x))
\* the base confidence of an exact match method
ExactBaseConfidence(match_method) ==
    IF match_method = "exact_model" THEN ExactModelConfidence ELSE ExactSkuConfidence
\* every member carries the confidence of the cluster
MembersCarryClusterConfidence ==
    \A i \in 1..Len(ReturnedCluster[1].offers) :
        ReturnedCluster[1].offers[i].match_confidence = ReturnedCluster[1].confidence
\* the confidence of an exact cluster is within RelevanceNudge of its base and
\* within the exact range
ExactConfidenceInRange ==
    /\ ReturnedCluster[1].confidence >= ExactBaseConfidence(ReturnedCluster[1].match_method)
                                            - RelevanceNudge
    /\ ReturnedCluster[1].confidence <= ExactBaseConfidence(ReturnedCluster[1].match_method)
                                            + RelevanceNudge
    /\ ReturnedCluster[1].confidence >= ExactConfidenceFloor
    /\ ReturnedCluster[1].confidence <= ExactConfidenceCeiling

\* C23 as stated: an exact cluster's confidence is its base moved by at most
\* 0.05 and within [0.85, 0.99]; a fuzzy cluster's confidence is the LLM's
\* confidence clamped into [0.80, 0.95]; every member's match_confidence
\* equals the confidence of the cluster.
C23_ConfidenceOfMethod ==
    op = "match" /\ ReturnedCluster # <<>> =>
        /\ ReturnedCluster[1].match_method \in {"exact_model", "exact_sku", "fuzzy_llm"}
        /\ ReturnedCluster[1].match_method # "fuzzy_llm" => ExactConfidenceInRange
        /\ ReturnedCluster[1].match_method = "fuzzy_llm"
              => ReturnedCluster[1].confidence
                    = ClampedInto(LlmConfidence, FuzzyConfidenceFloor, FuzzyConfidenceCeiling)
        /\ MembersCarryClusterConfidence

\* what holds in the place of C23: the confidence of a fuzzy cluster is the
\* clamped confidence rounded to hundredths, while its members carry the
\* clamped confidence as it is
ConfidenceAsComputed ==
    op = "match" /\ ReturnedCluster # <<>> =>
        IF ReturnedCluster[1].match_method = "fuzzy_llm"
        THEN /\ ReturnedCluster[1].confidence
                   = 10 * RoundDiv(ClampedInto(LlmConfidence, FuzzyConfidenceFloor,
                                               FuzzyConfidenceCeiling), 10)
             /\ \A i \in 1..Len(ReturnedCluster[1].offers) :
                   ReturnedCluster[1].offers[i].match_confidence
                       = ClampedInto(LlmConfidence, FuzzyConfidenceFloor, FuzzyConfidenceCeiling)
        ELSE ExactConfidenceInRange /\ MembersCarryClusterConfidence

\* the members of each viable exact group of the offers given, as enriched
ViableGroups(enriched) ==
    { Members(enriched, GroupOf(GroupKeys(enriched), i)) :
          i \in ViableLeaders(enriched, GroupKeys(enriched)) }
\* group is ahead of selected in (member count, distinct sellers, mean
\* relevance), the means compared exactly
AheadByMean(group, selected) ==
    \/ Len(group) > Len(selected)
    \/ /\ Len(group) = Len(selected)
       /\ Cardinality(SellersOrDomains(group)) > Cardinality(SellersOrDomains(selected))
    \/ /\ Len(group) = Len(selected)
       /\ Cardinality(SellersOrDomains(group)) = Cardinality(SellersOrDomains(selected))
       /\ SumRelevance(group) * Len(selected) > SumRelevance(selected) * Len(group)
\* the same with the means rounded to four places
AheadByRoundedMean(group, selected) ==
    \/ Len(group) > Len(selected)
    \/ /\ Len(group) = Len(selected)
       /\ Cardinality(SellersOrDomains(group)) > Cardinality(SellersOrDomains(selected))
    \/ /\ Len(group) = Len(selected)
       /\ Cardinality(SellersOrDomains(group)) = Cardinality(SellersOrDomains(selected))
       /\ RoundDiv(SumRelevance(group), Len(group))
             > RoundDiv(SumRelevance(selected), Len(selected))
\* the viable group the cluster returned was built from
GroupsOfCluster(groups, cluster) ==
    { group \in groups : OfferIds(group) = OfferIds(cluster.offers) }
\* the exact phase of the latest call returned a cluster
ExactReturned ==
    op = "match" /\ ReturnedCluster # <<>> /\ ReturnedCluster[1].match_method # "fuzzy_llm"

\* the cluster is built from one viable group that no viable group is ahead of
MaximalByMean(groups, cluster) ==
    /\ Cardinality(GroupsOfCluster(groups, cluster)) = 1
    /\ \A selected \in GroupsOfCluster(groups, cluster) :
          \A group \in groups : ~AheadByMean(group, selected)
MaximalByRoundedMean(groups, cluster) ==
    /\ Cardinality(GroupsOfCluster(groups, cluster)) = 1
    /\ \A selected \in GroupsOfCluster(groups, cluster) :
          \A group \in groups : ~AheadByRoundedMean(group, selected)

\* C24 as stated: the one cluster the exact phase returns is built from a
\* viable group that no other viable group exceeds in (member count,
\* distinct-seller count, mean relevance score).
C24_SelectedGroupMaximal ==
    /\ op = "match" /\ m_result # <<>> => Len(m_result[1].cluster) <= 1
    /\ ExactReturned => MaximalByMean(ViableGroups(Compared(m_offers)), ReturnedCluster[1])

\* C24 with the mean rounded as the sort key rounds it: no other viable group
\* exceeds the selected one in (member count, distinct-seller count, mean
\* relevance score rounded to four places).
C24_SelectedGroupMaximalRounded ==
    /\ op = "match" /\ m_result # <<>> => Len(m_result[1].cluster) <= 1
    /\ ExactReturned
          => MaximalByRoundedMean(ViableGroups(Compared(m_offers)), ReturnedCluster[1])

\* two groups were viable and the cluster is built from the one listed second,
\* which is ahead of the first
C24_Witness ==
    /\ ExactReturned
    /\ Cardinality(ViableGroups(Compared(m_offers))) = 2
    /\ OfferIds(ReturnedCluster[1].offers)[1] # OfferIds(m_offers)[1]
    /\ \E group \in ViableGroups(Compared(m_offers)) :
          AheadByRoundedMean(Members(Compared(m_offers),
                                     {i \in 1..Len(m_offers) :
                                         m_offers[i].offer_id
                                             \in Range(OfferIds(ReturnedCluster[1].offers))}),
                             group)


(***************************************************************************)
(* match followed by analyze: the cluster that ProductMatcherService.match *)
(* returns is handed to DifferentialPricingService.analyze.                *)
(***************************************************************************)
XM5 == <<"X","M","5">>
BuyersDen == <<"B","u","y","e","r","s"," ","D","e","n">>
buyersden_com == <<"b","u","y","e","r","s","d","e","n",".","c","o","m">>

\* an offer as listed, at a price
ListedAt(id, seller, domain, title, brand, model, price) ==
    PurchaseOption(id, seller, domain, title, brand, model, NoText, price, "new", NoText,
                   ExampleUrl, 9500, <<"jsonld">>)

\* Three offers of one model from three sellers, which are an exact group, and
\* three offers without a common brand-and-model key (a model in another
\* name, and an offer with nothing to derive brand or model from), which only
\* the LLM can put together.  The prices spread by 16.67%.
PipelineOfferPool ==
    { ListedAt("1", BestBuy, bestbuy_com, SonyTitle, Sony, WH1000XM5, 34999),
      ListedAt("2", MicroCenter, microcenter_com, SonyTitle, Sony, WH1000XM5, 29999),
      ListedAt("3", Amazon, amazon_com, SonyTitle, Sony, WH1000XM5, 32999),
      ListedAt("4", Walmart, walmart_com, NoText, Sony, XM5, 29999),
      ListedAt("5", BuyersDen, buyersden_com, NoText, NoText, NoText, 32399) }
MaxPipelineOffers == 3
PipelineOfferLists == DistinctSeqs(PipelineOfferPool, MaxPipelineOffers)

\* the answers of the LLM: the first two or three offers, with a confidence
\* below the fuzzy floor, below the alert gate, at it and above the fuzzy
\* ceiling
PipelineRawMatches ==
    { [ok |-> TRUE, object |-> TRUE,
       matched_indexes |-> [iterable |-> TRUE, items |-> items],
       confidence |-> [numeric |-> TRUE, number |-> number], rationale |-> SameProduct] :
         items \in { <<JsonInt(0), JsonInt(1)>>, <<JsonInt(0), JsonInt(1), JsonInt(2)>> },
         number \in {500, 847, 850, 1500} }
    \cup {NoJson}

InitMatchAnalyze ==
    /\ op = "match_analyze"
    /\ m_query = SonyQuery
    /\ m_offers \in PipelineOfferLists
    /\ m_llm \in {NoLLM, LLMClient(TRUE, "gemini")}
    /\ m_result = <<>>
    /\ m_llm_calls = 0
    /\ m_raw = <<>>
    /\ m_error = ""
    /\ IdleOthers("match")

\* matcher.match(query, offers) with no request to the LLM
PipelineMatchOffline ==
    /\ op = "match_analyze"
    /\ m_result = <<>>
    /\ ~MatchRequested(m_llm, m_offers)
    /\ m_result' = <<match(m_query, m_offers, m_llm, NoJson)>>
    /\ m_llm_calls' = m_result'[1].llm_calls
    /\ UNCHANGED <<op, m_query, m_offers, m_llm, m_raw, m_error, not_m_vars>>

\* matcher.match(query, offers), the LLM answering raw
PipelineMatchWithLLM ==
    /\ op = "match_analyze"
    /\ m_result = <<>>
    /\ MatchRequested(m_llm, m_offers)
    /\ \E raw \in PipelineRawMatches :
          /\ m_raw' = <<raw>>
          /\ m_result' = <<match(m_query, m_offers, m_llm, raw)>>
    /\ m_llm_calls' = 1
    /\ UNCHANGED <<op, m_query, m_offers, m_llm, m_error, not_m_vars>>

\* pricing.analyze(query, cluster) of the cluster that match returned, by a
\* service without an LLM
PipelineAnalyze ==
    /\ op = "match_analyze"
    /\ m_result # <<>>
    /\ m_result[1].cluster # <<>>
    /\ a_finding = <<>>
    /\ a_cluster' = m_result[1].cluster[1]
    /\ a_llm' = NoLLM
    /\ a_finding' = <<analyze(m_result[1].cluster[1], NoLLM, NoJson)>>
    /\ a_error' = ""
    /\ UNCHANGED <<op, not_a_vars>>

NextMatchAnalyze == PipelineMatchOffline \/ PipelineMatchWithLLM \/ PipelineAnalyze
SpecMatchAnalyze == InitMatchAnalyze /\ [][NextMatchAnalyze]_vars

\* the confidence of the LLM clamped as line 96 of match clamps it
ClampedLlmConfidence ==
    ClampedInto(_clamp_float(m_raw[1].confidence, MatchClampLow, MatchClampHigh),
                FuzzyConfidenceFloor, FuzzyConfidenceCeiling)
\* analyze returned the finding of a cluster of the fuzzy phase / exact phase
AnalyzedFuzzy ==
    op = "match_analyze" /\ a_finding # <<>> /\ a_cluster.match_method = "fuzzy_llm"
AnalyzedExact ==
    op = "match_analyze" /\ a_finding # <<>> /\ a_cluster.match_method # "fuzzy_llm"

\* C27: a cluster accepted by the fuzzy phase with a clamped confidence below
\* 0.85 gets alert_eligible = false and the label none from analyze, whatever
\* its offers; the confidence of a cluster of the exact phase is at least
\* 0.85.
C27_LowFuzzyNeverAlerts ==
    /\ AnalyzedFuzzy /\ ClampedLlmConfidence < AlertConfidence
          => ~a_finding[1].alert_eligible /\ a_finding[1].label = "none"
    /\ AnalyzedExact => a_cluster.confidence >= AlertConfidence

\* what holds in the place of C27: the gate reads the confidence of the
\* cluster, which is the clamped confidence rounded to hundredths
RoundedFuzzyNeverAlerts ==
    /\ AnalyzedFuzzy /\ a_cluster.confidence < AlertConfidence
          => ~a_finding[1].alert_eligible /\ a_finding[1].label = "none"
    /\ AnalyzedExact => a_cluster.confidence >= AlertConfidence


(***************************************************************************)
(* app/orchestrator.py: StrategyOrchestrator.run_once, over the Neo4jStore *)
(* without a driver (its _memory_* collections), the WebScraper and the    *)
(* StrategyPolicy.  The Tavily, Yutori and Slack adapters are built        *)
(* without keys: no evidence, the heuristic recommendation, nothing        *)
(* posted.  Confidences are integers in thousandths.                       *)
(*                                                                         *)
(* An instant of the UTC clock is a day of November 2026 and a second and  *)
(* microsecond of the minute 08:01.  A datetime reaches the store through  *)
(* model_dump(mode="json"), as its ISO 8601 text: the fraction of a second *)
(* is written with six digits, and left out when it is zero.               *)
(***************************************************************************)
Instant(day, second, microsecond) ==
    [day |-> day, second |-> second, microsecond |-> microsecond]

MicrosPerSecond == 1000000

\* the instant `days` days and `microseconds` microseconds after t
Advance(t, days, microseconds) ==
    Instant(t.day + days,
            t.second + ((t.microsecond + microseconds) \div MicrosPerSecond),
            (t.microsecond + microseconds) % MicrosPerSecond)

\* a < b as datetimes
Earlier(a, b) ==
    \/ a.day < b.day
    \/ a.day = b.day /\ a.second < b.second
    \/ a.day = b.day /\ a.second = b.second /\ a.microsecond < b.microsecond

\* n in decimal, zero-padded to width digits
RECURSIVE ZeroPadded(_, _)
ZeroPadded(n, width) ==
    IF width = 0 THEN <<>>
    ELSE ZeroPadded(n \div 10, width - 1) \o <<DigitChars[(n % 10) + 1]>>

\* the JSON form of a datetime in UTC
IsoFormat(t) ==
    <<"2","0","2","6","-","1","1","-">> \o ZeroPadded(t.day, 2) \o <<"T","0","8",":","0","1",":">> \o ZeroPadded(t.second, 2)
    \o (IF t.microsecond = 0 THEN <<>> ELSE <<".">> \o ZeroPadded(t.microsecond, 6))
    \o <<"Z">>

\* neo4j_store.py line 169: datetime.fromisoformat(str(text).replace("Z", "+00:00"))
fromisoformat(text) ==
    Instant(DigitsToNat(SubSeq(text, 9, 10)),
            DigitsToNat(SubSeq(text, 18, 19)),
            IF text[20] = "." THEN DigitsToNat(SubSeq(text, 21, 26)) ELSE 0)

(***************************************************************************)
(* app/adapters/scraper.py: what run_once reads of a snapshot.             *)
(***************************************************************************)
UndercutFactorPercent == 95
ShockFactorPercent == 88
\* the promo keywords of " Flash sale 30% off + coupon available today":
\* sale, coupon, % off, flash
ShockPromoKeywords == 4

\* line 91 and 117: price <= reference_price * 0.95
IsUndercut(price, reference_price) == 100 * price <= UndercutFactorPercent * reference_price

\* the ListingSnapshot of fetch_target: fetched is the price and the promo
\* keywords of the page or of the fallback file
ListingSnapshot(target, fetched, captured_at) ==
    [competitor |-> target.competitor, sku |-> target.sku, captured_at |-> captured_at,
     price |-> fetched.price, promo_score |-> fetched.promo_score,
     reference_price |-> target.reference_price,
     undercut |-> IsUndercut(fetched.price, target.reference_price)]

\* WebScraper._apply_shock
_apply_shock(snapshot) ==
    [snapshot EXCEPT
        !.price = Max2(1, RoundDiv(snapshot.price * ShockFactorPercent, 100)),
        !.promo_score = snapshot.promo_score + ShockPromoKeywords,
        !.undercut = IsUndercut(Max2(1, RoundDiv(snapshot.price * ShockFactorPercent, 100)),
                                snapshot.reference_price)]

\* the clock advances by this much from one reading of a run to the next
TickMicroseconds == 204561

\* WebScraper.fetch_many: the k-th snapshot is captured k ticks after `now`
fetch_many(targets, scenario, fetched, now) ==
    [k \in 1..Len(targets) |->
        IF scenario = "shock"
        THEN _apply_shock(ListingSnapshot(targets[k], fetched[k],
                                          Advance(now, 0, k * TickMicroseconds)))
        ELSE ListingSnapshot(targets[k], fetched[k], Advance(now, 0, k * TickMicroseconds))]

(***************************************************************************)
(* app/adapters/neo4j_store.py, the branches taken without a driver.  A    *)
(* store is the record of its _memory_* collections.                       *)
(***************************************************************************)
MemoryStore(snapshots, signals, actions, confidence) ==
    [snapshots |-> snapshots, signals |-> signals, actions |-> actions,
     confidence |-> confidence]

\* line 85-110: the snapshot is appended as model_dump(mode="json") gives it
record_snapshot(store, snapshot) ==
    [store EXCEPT !.snapshots =
        Append(store.snapshots, [snapshot EXCEPT !.captured_at = IsoFormat(snapshot.captured_at)])]

\* line 130
RowsOfTarget(snapshots, competitor, sku) ==
    SelectSeq(snapshots, LAMBDA r : r.competitor = competitor /\ r.sku = sku)

\* line 131: rows.sort(key=captured_at, reverse=True) compares the texts, and
\* is stable
RECURSIVE InsertLatestFirst(_, _)
InsertLatestFirst(sorted, row) ==
    IF sorted = <<>> THEN <<row>>
    ELSE IF StrLess(Head(sorted).captured_at, row.captured_at) THEN <<row>> \o sorted
    ELSE <<Head(sorted)>> \o InsertLatestFirst(Tail(sorted), row)
RECURSIVE LatestFirst(_)
LatestFirst(rows) ==
    IF rows = <<>> THEN <<>>
    ELSE InsertLatestFirst(LatestFirst(SubSeq(rows, 1, Len(rows) - 1)), rows[Len(rows)])

\* rows[:limit]
UpTo(rows, limit) ==
    IF limit >= 0 THEN SubSeq(rows, 1, Min2(limit, Len(rows)))
    ELSE SubSeq(rows, 1, Max2(0, Len(rows) + limit))

\* line 132-140
HistoryRowOf(row) ==
    [undercut |-> row.undercut, promo_score |-> <<row.promo_score>>, price |-> row.price,
     captured_at |-> row.captured_at]

\* Neo4jStore.get_recent_snapshots
get_recent_snapshots(store, competitor, sku, limit) ==
    LET rows == UpTo(LatestFirst(RowsOfTarget(store.snapshots, competitor, sku)), limit)
    IN  [i \in 1..Len(rows) |-> HistoryRowOf(rows[i])]

RecentSignalHours == 24

\* Neo4jStore.get_recent_signal, as run_once uses it: whether a signal of the
\* key was detected in the 24 hours before `reading`
get_recent_signal(store, competitor, sku, signal_type, reading) ==
    \E i \in 1..Len(store.signals) :
        /\ store.signals[i].competitor = competitor
        /\ store.signals[i].sku = sku
        /\ store.signals[i].signal_type = signal_type
        /\ ~Earlier(Advance(fromisoformat(store.signals[i].detected_at),
                            RecentSignalHours \div 24, 0),
                    reading)

SignalTypeText(signal_type) ==
    CASE signal_type = "combined" -> <<"c","o","m","b","i","n","e","d">>
      [] signal_type = "undercut" -> <<"u","n","d","e","r","c","u","t">>
      [] OTHER -> <<"p","r","o","m","o","_","i","n","t","e","n","s","i","t","y">>

\* Neo4jStore._confidence_key
_confidence_key(competitor, sku, signal_type) ==
    competitor \o <<":",":">> \o sku \o <<":",":">> \o SignalTypeText(signal_type)

One == 1000
\* min(1.0, max(0.0, x))
Clamp01(x) == Min2(One, Max2(0, x))

\* the sum is stored as it is
AfterOf_unclamped(before, delta) == before + delta

\* line 213
AfterOf(before, delta) == Clamp01(before + delta)

\* line 212
BeforeOf(confidence, key, default_confidence) ==
    IF key \in DOMAIN confidence THEN confidence[key] ELSE default_confidence

\* line 214
WithConfidence(confidence, key, after) ==
    [k \in (DOMAIN confidence) \cup {key} |-> IF k = key THEN after ELSE confidence[k]]

\* Neo4jStore.update_strategy_confidence: (before, after) and the store it leaves
update_strategy_confidence(store, competitor, sku, signal_type, delta, default_confidence) ==
    LET key == _confidence_key(competitor, sku, signal_type)
        before == BeforeOf(store.confidence, key, default_confidence)
    IN  [before |-> before,
         after |-> AfterOf(before, delta),
         store |-> [store EXCEPT !.confidence = WithConfidence(@, key, AfterOf(before, delta))]]

\* line 217-256 and 258-277
record_signal(store, signal) == [store EXCEPT !.signals = Append(@, signal)]
record_action(store, action) == [store EXCEPT !.actions = Append(@, action)]

(***************************************************************************)
(* run_once                                                                *)
(***************************************************************************)
LearningDelta == 100

\* line 59
learning_delta(prior_signal) == IF prior_signal THEN LearningDelta ELSE 0

\* line 68
final_confidence(base_confidence, confidence_before, confidence_after) ==
    Clamp01(base_confidence + (confidence_after - confidence_before))

\* line 70-83
StrategySignal(snapshot, detection, updated, now) ==
    [competitor |-> snapshot.competitor, sku |-> snapshot.sku,
     signal_type |-> detection.signal_type, severity |-> detection.severity,
     confidence |-> final_confidence(detection.base_confidence, updated.before, updated.after),
     evidence |-> <<>>, rationale |-> detection.rationale, detected_at |-> IsoFormat(now),
     confidence_before |-> updated.before, confidence_after |-> updated.after]

\* line 92-100
ActionCard(signal, now) ==
    [competitor |-> signal.competitor, sku |-> signal.sku,
     channel |-> IF signal.severity = "high" THEN "#pricing-incidents" ELSE "#pricing-watch",
     posted |-> FALSE, posted_at |-> IsoFormat(now)]

\* a call of update_strategy_confidence: what it was given, what was stored
\* under the key before it (<<>> if nothing) and what it returned
ConfidenceUpdate(confidence, competitor, sku, signal_type, delta, default_confidence, updated) ==
    [key |-> _confidence_key(competitor, sku, signal_type), delta |-> delta,
     default_confidence |-> default_confidence,
     stored |-> IF _confidence_key(competitor, sku, signal_type) \in DOMAIN confidence
                THEN <<confidence[_confidence_key(competitor, sku, signal_type)]>> ELSE <<>>,
     before |-> updated.before, after |-> updated.after]

\* what one pass of the loop did: the snapshot, the history it read, the
\* signal it made and the update of the confidence (<<>> if none), and the
\* store it left
LoopPass(snapshot, history, signal, update, store) ==
    [snapshot |-> snapshot, history |-> history, signal |-> signal, update |-> update,
     store |-> store]

\* line 70-102: the pass of a snapshot with a detection, after the update
Signalled(store, snapshot, history, detection, delta, updated, now) ==
    LoopPass(snapshot, history, <<StrategySignal(snapshot, detection, updated, now)>>,
             <<ConfidenceUpdate(store.confidence, snapshot.competitor, snapshot.sku,
                                detection.signal_type, delta, detection.base_confidence,
                                updated)>>,
             record_action(record_signal(updated.store,
                                         StrategySignal(snapshot, detection, updated, now)),
                           ActionCard(StrategySignal(snapshot, detection, updated, now), now)))

\* line 61-67
UpdatedBy(store, snapshot, history, detection, delta, now) ==
    Signalled(store, snapshot, history, detection, delta,
              update_strategy_confidence(store, snapshot.competitor, snapshot.sku,
                                         detection.signal_type, delta,
                                         detection.base_confidence),
              now)

\* line 45-59: store is the store after record_snapshot
Detected_pass(store, snapshot, history, detection, now, reading) ==
    IF detection = <<>> THEN LoopPass(snapshot, history, <<>>, <<>>, store)
    ELSE UpdatedBy(store, snapshot, history, detection[1],
                   learning_delta(get_recent_signal(store, snapshot.competitor, snapshot.sku,
                                                    detection[1].signal_type, reading)),
                   now)

DefaultPolicy ==
    [undercut_threshold |-> DefaultUndercutPercent, promo_multiplier |-> DefaultPromoMultiplier]

\* line 42-44: the history is read, then the snapshot is recorded
PassOfHistory(settings, store, snapshot, history, now, reading) ==
    Detected_pass(record_snapshot(store, snapshot), snapshot, history,
                  detect(DefaultPolicy, snapshot, history), now, reading)

\* line 41-102 for one snapshot
PassOf(settings, store, snapshot, now, reading) ==
    PassOfHistory(settings, store, snapshot,
                  get_recent_snapshots(store, snapshot.competitor, snapshot.sku,
                                       settings.run_limit),
                  now, reading)

\* line 41: the passes of the loop, in order
RECURSIVE Passes(_, _, _, _, _)
PassesAfter(settings, first, snapshots, now, reading) ==
    <<first>> \o Passes(settings, first.store, Tail(snapshots), now, reading)
Passes(settings, store, snapshots, now, reading) ==
    IF snapshots = <<>> THEN <<>>
    ELSE PassesAfter(settings, PassOf(settings, store, Head(snapshots), now, reading),
                     snapshots, now, reading)

\* the signals of the passes
RECURSIVE SignalsOf(_)
SignalsOf(passes) ==
    IF passes = <<>> THEN <<>> ELSE Head(passes).signal \o SignalsOf(Tail(passes))

\* StrategyOrchestrator.run_once: the passes; the store it leaves is the last pass's
run_once(settings, store, scenario, fetched, now, reading) ==
    Passes(settings, store, fetch_many(settings.scrape_targets, scenario, fetched, now),
           now, reading)

(***************************************************************************)
(* Instances: an orchestrator over a new store, run again and again, the   *)
(* store's update_strategy_confidence also called directly.                *)
(***************************************************************************)
CompetitorA == <<"C","o","m","p","e","t","i","t","o","r","A">>
CompetitorB == <<"C","o","m","p","e","t","i","t","o","r","B">>
SKU_ALPHA == <<"S","K","U","-","A","L","P","H","A">>
SKU_BETA == <<"S","K","U","-","B","E","T","A">>

ScrapeTarget(competitor, sku, reference_price) ==
    [competitor |-> competitor, sku |-> sku, reference_price |-> reference_price]

\* config.py: default_targets()
default_targets ==
    <<ScrapeTarget(CompetitorA, SKU_ALPHA, 10000), ScrapeTarget(CompetitorB, SKU_BETA, 7000)>>

DefaultRunLimit == 20

\* Settings with SCRAPE_TARGETS_JSON naming the first target, or unset
OrchestratorSettings ==
    {[scrape_targets |-> targets, run_limit |-> DefaultRunLimit] :
        targets \in {SubSeq(default_targets, 1, 1), default_targets}}

\* what fetching a target gives: a price under the undercut mark and no promo
\* text, or the reference price and a promo text of three keywords
FetchedOf(target) ==
    {[price |-> (9 * target.reference_price) \div 10, promo_score |-> 0],
     [price |-> target.reference_price, promo_score |-> 3]}

FetchedFor(targets) ==
    {fetched \in [1..Len(targets) -> UNION {FetchedOf(targets[k]) : k \in 1..Len(targets)}] :
        \A k \in 1..Len(targets) : fetched[k] \in FetchedOf(targets[k])}

\* the clock before the first call
StartOfClock == Instant(6, 4, 590877)

\* between two calls the clock advances by a fraction of a second, or by a
\* day and that fraction
GapMicroseconds == 204562

\* the requests made: a current or a shock run right after the previous call,
\* or a current run a day later
RunRequests ==
    {[scenario |-> "current", days |-> 0], [scenario |-> "shock", days |-> 0],
     [scenario |-> "current", days |-> 1]}

MaxSnapshots == 3
MaxUpdates == 1

\* the arguments of the direct calls
Deltas == {-700, 400}
DefaultConfidences == {500}
SignalTypes == {"undercut"}

InitOrchestrate ==
    /\ op = "run_once"
    /\ o_settings \in {<<settings>> : settings \in OrchestratorSettings}
    /\ o_snapshots = <<>>
    /\ o_signals = <<>>
    /\ o_actions = <<>>
    /\ o_confidence = <<>>
    /\ o_clock = StartOfClock
    /\ o_calls = <<>>
    /\ IdleOthers("run_once")

TheStore == MemoryStore(o_snapshots, o_signals, o_actions, o_confidence)

RunOnceCall(scenario, passes) ==
    [call |-> "run_once", scenario |-> scenario,
     passes |-> [i \in 1..Len(passes) |->
                    [snapshot |-> passes[i].snapshot, history |-> passes[i].history,
                     signal |-> passes[i].signal, update |-> passes[i].update]]]

\* the variables after a run whose passes are given
RanOnce(scenario, passes, reading) ==
    /\ o_snapshots' = passes[Len(passes)].store.snapshots
    /\ o_signals' = passes[Len(passes)].store.signals
    /\ o_actions' = passes[Len(passes)].store.actions
    /\ o_confidence' = passes[Len(passes)].store.confidence
    /\ o_clock' = reading
    /\ o_calls' = Append(o_calls, RunOnceCall(scenario, passes))

RunsSoFar == Len(SelectSeq(o_calls, LAMBDA c : c.call = "run_once"))
UpdatesSoFar == Len(SelectSeq(o_calls, LAMBDA c : c.call = "update_strategy_confidence"))

\* the store reads the clock a tick after the last snapshot was captured
EndOfRun(clock, days, targets) ==
    Advance(clock, days, GapMicroseconds + (targets + 1) * TickMicroseconds)

\* POST /api/run-once: one call of run_once
RunOnce ==
    /\ op = "run_once"
    /\ Len(o_snapshots) + Len(o_settings[1].scrape_targets) <= MaxSnapshots
    /\ \E request \in RunRequests, fetched \in FetchedFor(o_settings[1].scrape_targets) :
          \E passes \in {run_once(o_settings[1], TheStore, request.scenario, fetched,
                                  Advance(o_clock, request.days, GapMicroseconds),
                                  EndOfRun(o_clock, request.days,
                                           Len(o_settings[1].scrape_targets)))} :
              RanOnce(request.scenario, passes,
                      EndOfRun(o_clock, request.days, Len(o_settings[1].scrape_targets)))
    /\ UNCHANGED <<op, o_settings, not_o_vars>>

UpdateCall(update) == [call |-> "update_strategy_confidence", update |-> update]

Updated(competitor, sku, signal_type, delta, default_confidence, updated) ==
    /\ o_confidence' = updated.store.confidence
    /\ o_calls' = Append(o_calls,
                         UpdateCall(ConfidenceUpdate(o_confidence, competitor, sku, signal_type,
                                                     delta, default_confidence, updated)))

\* a direct call of the store's update_strategy_confidence
UpdateStrategyConfidence ==
    /\ op = "run_once"
    /\ UpdatesSoFar < MaxUpdates
    /\ \E k \in 1..Len(o_settings[1].scrape_targets), signal_type \in SignalTypes,
          delta \in Deltas, default_confidence \in DefaultConfidences :
          \E updated \in {update_strategy_confidence(
                               TheStore, o_settings[1].scrape_targets[k].competitor,
                               o_settings[1].scrape_targets[k].sku, signal_type, delta,
                               default_confidence)} :
              Updated(o_settings[1].scrape_targets[k].competitor,
                      o_settings[1].scrape_targets[k].sku, signal_type, delta,
                      default_confidence, updated)
    /\ UNCHANGED <<op, o_settings, o_snapshots, o_signals, o_actions, o_clock, not_o_vars>>

NextOrchestrate == RunOnce \/ UpdateStrategyConfidence

SpecOrchestrate == InitOrchestrate /\ [][NextOrchestrate]_vars

(***************************************************************************)
(* Claims about run_once and the store                                     *)
(***************************************************************************)
\* the calls of run_once so far, in order
RunOnceCallsOf(calls) == SelectSeq(calls, LAMBDA c : c.call = "run_once")

IsUndercutSignal(pass) ==
    pass.signal # <<>> /\ pass.signal[1].signal_type \in {"undercut", "combined"}

SameTarget(a, b) == a.competitor = b.competitor /\ a.sku = b.sku

\* the snapshot of the pass's target in the run was an undercut
UndercutIn(run, pass) ==
    \E k \in 1..Len(run.passes) :
        SameTarget(run.passes[k].snapshot, pass.snapshot) /\ run.passes[k].snapshot.undercut

\* an undercut or combined signal of run i has an undercut now and in run i - 1
SignalAfterUndercut(runs, i) ==
    \A k \in 1..Len(runs[i].passes) :
        IsUndercutSignal(runs[i].passes[k])
            => /\ runs[i].passes[k].snapshot.undercut
               /\ i > 1
               /\ UndercutIn(runs[i - 1], runs[i].passes[k])

\* the history a pass of run i read is of the runs before it: it has none of
\* the snapshot the pass recorded
HistoryReadFirst(runs, i, limit) ==
    \A k \in 1..Len(runs[i].passes) :
        /\ Len(runs[i].passes[k].history) = Min2(limit, i - 1)
        /\ \A j \in 1..Len(runs[i].passes[k].history) :
              runs[i].passes[k].history[j].captured_at
                  # IsoFormat(runs[i].passes[k].snapshot.captured_at)

\* the snapshot of every pass of run i is in the store
SnapshotRecorded(runs, i, snapshots) ==
    \A k \in 1..Len(runs[i].passes) :
        \E j \in 1..Len(snapshots) :
            /\ SameTarget(snapshots[j], runs[i].passes[k].snapshot)
            /\ snapshots[j].captured_at = IsoFormat(runs[i].passes[k].snapshot.captured_at)
            /\ snapshots[j].undercut = runs[i].passes[k].snapshot.undercut

RunsAsClaimed(runs, limit, snapshots) ==
    \A i \in 1..Len(runs) :
        /\ SignalAfterUndercut(runs, i)
        /\ HistoryReadFirst(runs, i, limit)
        /\ SnapshotRecorded(runs, i, snapshots)

\* C28: over any sequence of run_once calls against the in-memory store, a
\* target yields an undercut or combined signal in a run only if its snapshot
\* of that run is an undercut and so was its snapshot of the run before; the
\* history is read before the snapshot is recorded, the snapshot is recorded
\* in every run, and the first run yields no undercut or combined signal.
C28_UndercutSignalOnlyAfterUndercut ==
    op = "run_once" => RunsAsClaimed(RunOnceCallsOf(o_calls), o_settings[1].run_limit, o_snapshots)

\* the parts of C28 that are not about which run the history's first row is of
RunsReadThenRecord ==
    op = "run_once"
        => \A i \in 1..Len(RunOnceCallsOf(o_calls)) :
              /\ HistoryReadFirst(RunOnceCallsOf(o_calls), i, o_settings[1].run_limit)
              /\ SnapshotRecorded(RunOnceCallsOf(o_calls), i, o_snapshots)
              /\ (i = 1 => SignalAfterUndercut(RunOnceCallsOf(o_calls), i))

\* an undercut or combined signal has an undercut now and in the history's first row
SignalAfterFirstRow ==
    op = "run_once"
        => \A i \in 1..Len(RunOnceCallsOf(o_calls)) : \A k \in 1..Len(RunOnceCallsOf(o_calls)[i].passes) :
              IsUndercutSignal(RunOnceCallsOf(o_calls)[i].passes[k])
                  => /\ RunOnceCallsOf(o_calls)[i].passes[k].snapshot.undercut
                     /\ RunOnceCallsOf(o_calls)[i].passes[k].history # <<>>
                     /\ RunOnceCallsOf(o_calls)[i].passes[k].history[1].undercut

\* the calls of update_strategy_confidence so far, direct or by run_once, in order
RECURSIVE UpdatesOfPasses(_)
UpdatesOfPasses(passes) ==
    IF passes = <<>> THEN <<>> ELSE Head(passes).update \o UpdatesOfPasses(Tail(passes))
RECURSIVE UpdatesOf(_)
UpdatesOf(calls) ==
    IF calls = <<>> THEN <<>>
    ELSE (IF Head(calls).call = "run_once" THEN UpdatesOfPasses(Head(calls).passes)
          ELSE <<Head(calls).update>>)
         \o UpdatesOf(Tail(calls))

\* the calls before the n-th that were for the same key
EarlierOfKey(updates, n) == {i \in 1..(n - 1) : updates[i].key = updates[n].key}

InUnit(x) == 0 <= x /\ x <= One

\* the n-th call returned the value the previous call for its key stored, or
\* its default, and that value plus delta, clamped
ReturnedBeforeAfter(updates, n) ==
    /\ updates[n].before
           = IF EarlierOfKey(updates, n) = {} THEN updates[n].default_confidence
             ELSE updates[SetMax(EarlierOfKey(updates, n))].after
    /\ updates[n].after = Clamp01(updates[n].before + updates[n].delta)

\* what is stored is what the last call for each key returned as `after`:
\* a call changes the value of its own key only
StoredByLastCall(updates, confidence) ==
    /\ DOMAIN confidence = {updates[n].key : n \in 1..Len(updates)}
    /\ \A n \in 1..Len(updates) :
          (\A i \in (n + 1)..Len(updates) : updates[i].key # updates[n].key)
              => confidence[updates[n].key] = updates[n].after

BaseConfidenceOf(signal_type) ==
    IF signal_type = "combined" THEN CombinedConfidence ELSE SingleConfidence

\* the confidence of a recorded signal is the clamped base confidence plus
\* the change of the runbook confidence
DerivedConfidence(signal) ==
    /\ signal.confidence
           = Clamp01(BaseConfidenceOf(signal.signal_type)
                     + (signal.confidence_after - signal.confidence_before))
    /\ InUnit(signal.confidence)

ConfidencesAsClaimed(updates, confidence, signals) ==
    /\ \A key \in DOMAIN confidence : InUnit(confidence[key])
    /\ \A n \in 1..Len(updates) : ReturnedBeforeAfter(updates, n)
    /\ StoredByLastCall(updates, confidence)
    /\ \A i \in 1..Len(signals) : DerivedConfidence(signals[i])

WitnessedBy(updates, confidence, signals) ==
    /\ \E n \in 1..Len(updates) :
          /\ EarlierOfKey(updates, n) # {}
          /\ updates[n].before # updates[n].default_confidence
    /\ \E n \in 1..Len(updates) : ~InUnit(updates[n].before + updates[n].delta)
    /\ Cardinality(DOMAIN confidence) >= 2
    /\ \E i \in 1..Len(signals) : signals[i].confidence_after # signals[i].confidence_before

=============================================================================
